---------------------------- MODULE Spec2Model ----------------------------
(***************************************************************************)
(* Frame orchestration and GPU resource synchronisation of the ray-tracing *)
(* demo: the scene collections and their GPU mirrors (App::check_buffers), *)
(* the swapchain lifecycle (Vk::recreate_swapchain) and the frame timeline *)
(* (Vk::wait_frame / begin_frame / next_render_pass / end_frame) as driven *)
(* by the event loop of App::main_loop.                                    *)
(*                                                                         *)
(* Option<T> values are sequences of length at most one: <<>> is None and  *)
(* <<x>> is Some(x).  unwrap()/expect() on None is a panic: the action     *)
(* that would do it moves pc to "panicked" and the process is over.        *)
(* The panic! of Vk::recreate_swapchain on a creation error moves pc to    *)
(* "fatal".                                                                *)
(* unwrap() on the creation of a command buffer, descriptor set or uniform *)
(* block is taken on its success path.                                     *)
(***************************************************************************)
EXTENDS Integers, Sequences, FiniteSets, TLC

\* ------------------------------------------------------------------ bounds
\* Scene operations (add_material, add_circle, setter calls, UI edits,
\* markings and pushes) explored in a run the surface never disturbs.
MaxSceneOps == 3
\* Operations explored in a run with surface disturbances (resize and close
\* events, an exit asked by the UI, acquisitions and presents that are not a
\* plain success, recreations refused for a nonzero extent or returning
\* another image count), the scene operations of that run included.
MaxFaults == 2
\* Number of event-loop iterations explored.
MaxTicks == 3

\* usize::MAX, the index Material::new / Circle::new start with, narrowed to
\* 32 bits: only its lying above every position matters.
USIZE_MAX == 2147483647

\* --------------------------------------------------------------- Option<T>
None == << >>
Some(x) == << x >>
IsSome(o) == o /= << >>
IsNone(o) == o = << >>
Unwrap(o) == o[1]

\* ------------------------------------------------------------ value domains
\* Two colours, emissions and smoothness values (in tenths) stand for the f32
\* fields; the first of each pair is the default of Material::new.
ColorVals == {"white", "red"}
EmissionVals == {"dark", "warm"}
SmoothnessVals == {5, 1}
\* Values of the i32 Scene.kernel_offset: the ends of the type, -3, 0, 1 and
\* the value Scene starts with.
I32_MIN == -2147483647 - 1
I32_MAX == 2147483647
default_kernel_offset == 2
KernelOffsetVals == {I32_MIN, -3, 0, 1, default_kernel_offset, I32_MAX}
\* Likewise for Circle::new: position, radius (in tenths), material index.
PositionVals == {"origin", "left"}
RadiusVals == {10, 3}
MaterialVals == {0, 1}

\* Window sizes delivered by Resized events, the default size included.
default_window_size == <<1200, 900>>
Sizes == {default_window_size, <<0, 900>>, <<800, 0>>}

\* Content of a buffer slot no record was written to.
Uninit == [uninit |-> TRUE]

VARIABLES
    pc,                        \* where the process is (see PcValues)
    tick,                      \* event-loop iterations started so far
    exit,                      \* control_flow.set_exit() was called
    size,                      \* App.size
    recreate_swapchain,        \* App.recreate_swapchain
    all_materials,             \* Scene.all_materials
    all_circles,               \* Scene.all_circles
    kernel_offset,             \* Scene.kernel_offset : i32
    material_buffer,           \* App.material_buffer : Option
    material_buffer_size,      \* App.material_buffer_size
    circle_buffer,             \* App.circle_buffer : Option
    circle_buffer_size,        \* App.circle_buffer_size
    geom_set,                  \* App.geom_set : Option
    geom_layout,               \* the offscreen pipeline has a set layout 1
    swapchain,                 \* Vk.swapchain
    images,                    \* Vk.images (its length)
    buffers,                   \* Vk.buffers : Option (the framebuffer set)
    viewport,                  \* App.viewport.dimensions
    uploads,                   \* Vk.uploads : Option
    previous_frame_end,        \* Vk.previous_frame_end : Option
    should_recreate_swapchain, \* Vk.should_recreate_swapchain
    acquire_future,            \* Vk.acquire_future : Option
    current_image_index,       \* Vk.current_image_index
    render_pass,               \* the recording of RedrawRequested : Option
    status,                    \* the DrawStatus end_frame returned : Option
    submissions,               \* queue submissions of the current tick
    sync_log,                  \* what the last check_buffers run did
    mutated,                   \* a scene mutation happened since that run
    scene_ops,                 \* scene operations so far (see MaxSceneOps)
    faults,                    \* surface disturbances so far (see MaxFaults)
    recreate_log,              \* recreate_swapchain calls of the current tick
    stale,                     \* when a stale surface was last reported
    suboptimal_seen            \* when an acquisition was last suboptimal

vars == << pc, tick, exit, size, recreate_swapchain, all_materials, all_circles,
           kernel_offset,
           material_buffer, material_buffer_size, circle_buffer,
           circle_buffer_size, geom_set, geom_layout, swapchain, images, buffers,
           viewport, uploads, previous_frame_end, should_recreate_swapchain,
           acquire_future, current_image_index, render_pass, status,
           submissions, sync_log, mutated, scene_ops, faults, recreate_log, stale,
                    suboptimal_seen >>

scene_vars == << all_materials, all_circles, kernel_offset >>
mirror_vars == << material_buffer, material_buffer_size, circle_buffer,
                  circle_buffer_size, geom_set >>
chain_vars == << swapchain, images, buffers, viewport >>
timeline_vars == << previous_frame_end, should_recreate_swapchain,
                    acquire_future, current_image_index >>
loop_vars == << tick, exit, size, recreate_swapchain >>
frame_vars == << render_pass, status, submissions >>
budget_vars == << scene_ops, faults >>


\* ------------------------------------------------------------ scene entries
\* Material::new (material.rs 15-23)
Material_new ==
    [index |-> USIZE_MAX, dirty |-> TRUE,
     color |-> "white", emission |-> "dark", smoothness |-> 5]

\* Circle::new (geom.rs 15-23)
Circle_new ==
    [index |-> USIZE_MAX, dirty |-> TRUE,
     position |-> "origin", radius |-> 10, material |-> 0]

\* Material::mark_dirty / Circle::mark_dirty
mark_dirty(e) == [e EXCEPT !.dirty = TRUE]

\* The builder setters: each assigns its field and returns the handle.
Material_color(m, v) == [m EXCEPT !.color = v]
Material_emission(m, v) == [m EXCEPT !.emission = v]
Material_smoothness(m, v) == [m EXCEPT !.smoothness = v]
Circle_position(c, v) == [c EXCEPT !.position = v]
Circle_radius(c, v) == [c EXCEPT !.radius = v]
Circle_material(c, v) == [c EXCEPT !.material = v]

\* impl Into<shader::raytrace::fs::Material> for Material: the GPU record
\* keeps the three value fields and drops index and dirty.
MaterialInto(m) ==
    [color |-> m.color, emission |-> m.emission, smoothness |-> m.smoothness]

\* impl Into<shader::raytrace::fs::Circle> for Circle
CircleInto(c) ==
    [position |-> c.position, radius |-> c.radius, material |-> c.material]

Into(kind, e) == IF kind = "material" THEN MaterialInto(e) ELSE CircleInto(e)

\* An add that hands every entry the index 0.
add_entry_same_index(coll, fresh) == Append(coll, [fresh EXCEPT !.index = 0])

\* App::add_material / App::add_circle: push the default entry, then store
\* the position it landed on in its index field (positions count from 0).
add_entry(coll, fresh) ==
    LET index == Len(coll)
    IN  Append(coll, [fresh EXCEPT !.index = index])

\* ------------------------------------------------------- check_buffers
\* A storage buffer: the generation tells buffers of one collection apart,
\* cap is the record count it was allocated for, list its contents, and used
\* says that a submitted command buffer references it.
NewBuffer(gen, cap) ==
    [gen |-> gen, cap |-> cap, list |-> [k \in 1..cap |-> Uninit], used |-> FALSE]

NextGen(buf) == IF IsNone(buf) THEN 1 ELSE Unwrap(buf).gen + 1

\* A recreation that allocates one record more than the stored size.
recreate_buffer_roomy(st) ==
    [st EXCEPT
        !.buf = Some(NewBuffer(NextGen(st.buf), st.size + 1)),
        !.coll = [k \in 1..Len(st.coll) |-> mark_dirty(st.coll[k])],
        !.update_descriptors = TRUE,
        !.allocs = @ + 1]

\* A recreation that leaves the dirty flags as they are.
recreate_buffer_keeps_flags(st) ==
    [st EXCEPT
        !.buf = Some(NewBuffer(NextGen(st.buf), st.size)),
        !.update_descriptors = TRUE,
        !.allocs = @ + 1]

\* The closure recreate_buffer: allocate a buffer of the stored size, mark
\* every entry dirty, raise update_descriptors.  The old contents are not
\* copied over.
recreate_buffer(st) ==
    [st EXCEPT
        !.buf = Some(NewBuffer(NextGen(st.buf), st.size)),
        !.coll = [k \in 1..Len(st.coll) |-> mark_dirty(st.coll[k])],
        !.update_descriptors = TRUE,
        !.allocs = @ + 1]

\* Subbuffer::write(): the mapped write is refused while the device still
\* holds the buffer, which takes a submitted command buffer referencing it
\* (used) whose resources the timeline has not released yet (held).
WriteOk(buf, held) == ~(buf.used /\ held)

\* w.list[i] = m.into()
WriteRecord(st, i, rec) ==
    [st EXCEPT !.buf = Some([Unwrap(st.buf) EXCEPT !.list[i] = rec]),
               !.writes = @ + 1]

\* self.scene.all_materials[i].dirty = false (app.rs 258, 292), the first
\* statement of a round for a dirty entry, before the write is tried.  The
\* run notes the entries whose flag it cleared, and those whose flag became
\* false while the buffer did not hold their record yet.
ClearFlag(st, i, rec) ==
    [st EXCEPT !.coll[i].dirty = FALSE,
               !.flag_cleared = @ \cup {i},
               !.cleared_unwritten =
                    IF Unwrap(st.buf).list[i] = rec THEN @ ELSE @ \cup {i}]

\* A round that repairs a refused write without raising update_descriptors.
SyncStep_quiet_repair(st, i, held, kind) ==
    LET m == st.coll[i]
    IN  IF ~m.dirty THEN st
        ELSE LET cleared == ClearFlag(st, i, Into(kind, m))
             IN  IF WriteOk(Unwrap(cleared.buf), held)
                 THEN WriteRecord(cleared, i, Into(kind, m))
                 ELSE WriteRecord([recreate_buffer(cleared) EXCEPT
                                      !.update_descriptors = cleared.update_descriptors,
                                      !.failed = @ \cup {i}],
                                  i, Into(kind, m))

\* A round that, on a refused write, recreates the buffer and writes nothing.
SyncStep_no_rewrite(st, i, held, kind) ==
    LET m == st.coll[i]
    IN  IF ~m.dirty THEN st
        ELSE LET cleared == [st EXCEPT !.coll[i].dirty = FALSE]
             IN  IF ~(Unwrap(cleared.buf).used /\ held)
                 THEN [cleared EXCEPT
                         !.buf = Some([Unwrap(cleared.buf) EXCEPT !.list[i] = Into(kind, m)]),
                         !.writes = @ + 1]
                 ELSE [cleared EXCEPT
                         !.buf = Some(NewBuffer(NextGen(cleared.buf), cleared.size)),
                         !.coll = [k \in 1..Len(cleared.coll) |-> mark_dirty(cleared.coll[k])],
                         !.update_descriptors = TRUE,
                         !.allocs = @ + 1,
                         !.failed = @ \cup {i}]

\* A round that, on a refused write, replaces the buffer without marking the
\* entries dirty.
SyncStep_repair_unmarked(st, i, held, kind) ==
    LET m == st.coll[i]
    IN  IF ~m.dirty THEN st
        ELSE LET cleared == ClearFlag(st, i, Into(kind, m))
             IN  IF WriteOk(Unwrap(cleared.buf), held)
                 THEN WriteRecord(cleared, i, Into(kind, m))
                 ELSE WriteRecord([recreate_buffer(cleared) EXCEPT
                                      !.coll = cleared.coll,
                                      !.failed = @ \cup {i}],
                                  i, Into(kind, m))

\* One round of the loop `for i in 0..length` (i counts from 1 here): a
\* dirty entry has its flag cleared, then the mapped write is tried, and on
\* refusal the buffer is recreated and the record written into the new one.
SyncStep(st, i, held, kind) ==
    LET m == st.coll[i]
    IN  IF ~m.dirty THEN st
        ELSE LET cleared == ClearFlag(st, i, Into(kind, m))
             IN  IF WriteOk(Unwrap(cleared.buf), held)
                 THEN WriteRecord(cleared, i, Into(kind, m))
                 ELSE WriteRecord([recreate_buffer(cleared) EXCEPT !.failed = @ \cup {i}],
                                  i, Into(kind, m))

\* A loop that stops after its first round.
SyncLoop_first_only(st, i, held, kind) ==
    IF i > Len(st.coll) THEN st ELSE SyncStep(st, i, held, kind)

RECURSIVE SyncLoop(_, _, _, _)
SyncLoop(st, i, held, kind) ==
    IF i > Len(st.coll) THEN st
    ELSE SyncLoop(SyncStep(st, i, held, kind), i + 1, held, kind)

\* A sync that allocates a buffer for the collection on every run.
SyncCollection_always_allocates(coll, buf, bufsize, held, kind) ==
    LET st0 == [coll |-> coll, buf |-> buf, size |-> bufsize,
                update_descriptors |-> FALSE, writes |-> 0, allocs |-> 0,
                failed |-> {}, flag_cleared |-> {}, cleared_unwritten |-> {}]
        st1 == recreate_buffer([st0 EXCEPT !.size = Len(coll)])
    IN  SyncLoop(st1, 1, held, kind)

\* The part of check_buffers that deals with one collection: the size check
\* with its recreation, then the loop over the entries.
SyncCollection(coll, buf, bufsize, held, kind) ==
    LET st0 == [coll |-> coll, buf |-> buf, size |-> bufsize,
                update_descriptors |-> FALSE, writes |-> 0, allocs |-> 0,
                failed |-> {}, flag_cleared |-> {}, cleared_unwritten |-> {}]
        st1 == IF Len(coll) /= bufsize
               THEN recreate_buffer([st0 EXCEPT !.size = Len(coll)])
               ELSE st0
    IN  SyncLoop(st1, 1, held, kind)

\* The tail of check_buffers: with update_descriptors raised and a set layout
\* at index 1, a new geometry set binds the material buffer at slot 0 and the
\* circle buffer at slot 1, each when it exists.
BufRef(buf) == IF IsNone(buf) THEN None ELSE Some(Unwrap(buf).gen)

\* A rebuild that does not look for the set layout.
RebuildGeomSet_ignores_layout(old, update_descriptors, layout, mbuf, cbuf) ==
    IF update_descriptors
    THEN Some([material |-> BufRef(mbuf), circle |-> BufRef(cbuf)])
    ELSE old

\* A rebuild that takes the circle slot over from the set it replaces.
RebuildGeomSet_keeps_circle_slot(old, update_descriptors, layout, mbuf, cbuf) ==
    IF update_descriptors /\ layout
    THEN Some([material |-> BufRef(mbuf),
               circle |-> IF IsSome(old) THEN Unwrap(old).circle ELSE BufRef(cbuf)])
    ELSE old

RebuildGeomSet(old, update_descriptors, layout, mbuf, cbuf) ==
    IF update_descriptors /\ layout
    THEN Some([material |-> BufRef(mbuf), circle |-> BufRef(cbuf)])
    ELSE old

\* Whether the device may still hold the buffer when check_buffers runs.
HeldChoices(buf) == IF IsSome(buf) /\ Unwrap(buf).used THEN BOOLEAN ELSE {FALSE}

DirtySet(coll) == {k \in 1..Len(coll) : coll[k].dirty}

NoRun == [dirty0 |-> {}, resized |-> FALSE, writes |-> 0, allocs |-> 0, failed |-> {},
          flag_cleared |-> {}, cleared_unwritten |-> {}]
\* The record of the last check_buffers run; after_failed tells, for each
\* collection, whether the run before it took the failed-write path.
NoSync == [ran |-> FALSE, first |-> FALSE, tick |-> 0, runs |-> 0,
           clean_start |-> FALSE, rebuilt |-> FALSE,
           after_failed |-> [m |-> FALSE, c |-> FALSE],
           m |-> NoRun, c |-> NoRun]

RunLog(coll, bufsize, st) ==
    [dirty0 |-> DirtySet(coll), resized |-> Len(coll) /= bufsize,
     writes |-> st.writes, allocs |-> st.allocs, failed |-> st.failed,
     flag_cleared |-> st.flag_cleared, cleared_unwritten |-> st.cleared_unwritten]


\* ------------------------------------------------------------- swapchain
\* Swapchain::new asks for max(4, min_image_count) images (vk.rs 181).
MinImageCount == 4

\* Vk::setup_framebuffer: the viewport takes the dimensions of images[0] and
\* one Buffers entry (offscreen and screen framebuffer with their four
\* attachments) is built per image; the whole set replaces the old one.
setup_framebuffer(chain, count) ==
    [buffers |-> Some([i \in 1..count |->
                         [chain |-> chain.gen, image |-> i - 1, dims |-> chain.extent]]),
     viewport |-> chain.extent]

\* What Swapchain::recreate may answer for an extent.  No swapchain is made
\* for a zero-area extent: the answer is ImageExtentNotSupported or another
\* creation error (the library has one of its own for zero-length
\* dimensions).  Any other extent may be accepted, be reported unsupported
\* (the window may have changed again since the event that cached the size)
\* or fail otherwise.
RecreateOutcomes(sz) ==
    IF sz[1] = 0 \/ sz[2] = 0 THEN {"unsupported", "error"}
                              ELSE {"ok", "unsupported", "error"}

\* A recreation that, refused, still takes the requested size as viewport.
Vk_recreate_swapchain_refused_sets_viewport(chain, count, fbs, vp, sz, outcome, newcount) ==
    IF outcome /= "ok"
    THEN [swapchain |-> chain, images |-> count, buffers |-> fbs, viewport |-> sz]
    ELSE LET new_swapchain == [gen |-> chain.gen + 1, extent |-> sz]
             fb == setup_framebuffer(new_swapchain, newcount)
         IN  [swapchain |-> new_swapchain, images |-> newcount,
              buffers |-> fb.buffers, viewport |-> fb.viewport]

\* A recreation that rebuilds only the first entry of the framebuffer set.
Vk_recreate_swapchain_patches_first(chain, count, fbs, vp, sz, outcome, newcount) ==
    IF outcome /= "ok"
    THEN [swapchain |-> chain, images |-> count, buffers |-> fbs, viewport |-> vp]
    ELSE LET new_swapchain == [gen |-> chain.gen + 1, extent |-> sz]
             fb == setup_framebuffer(new_swapchain, newcount)
         IN  [swapchain |-> new_swapchain, images |-> newcount,
              buffers |-> Some([Unwrap(fbs) EXCEPT ![1] = Unwrap(fb.buffers)[1]]),
              viewport |-> fb.viewport]

\* Vk::recreate_swapchain: on ImageExtentNotSupported return with nothing
\* changed, on any other error panic (the caller moves pc to "fatal");
\* otherwise install the new swapchain and images and rebuild the
\* framebuffer set.
Vk_recreate_swapchain(chain, count, fbs, vp, sz, outcome, newcount) ==
    IF outcome /= "ok"
    THEN [swapchain |-> chain, images |-> count, buffers |-> fbs, viewport |-> vp]
    ELSE LET new_swapchain == [gen |-> chain.gen + 1, extent |-> sz]
             fb == setup_framebuffer(new_swapchain, newcount)
         IN  [swapchain |-> new_swapchain, images |-> newcount,
              buffers |-> fb.buffers, viewport |-> fb.viewport]

\* -------------------------------------------------------------- signals
\* A completion signal (GpuFuture): sync::now, the upload submission, or the
\* offscreen or composite submission of a frame.
NowSignal == [kind |-> "now", frame |-> 0]
UploadSignal == [kind |-> "upload", frame |-> 0]
FrameSignal(kind, frame) == [kind |-> kind, frame |-> frame]

\* The image index an acquisition returns: the images of a chain of n are
\* handed out in rotation.
AcquirableIndices(frame, n) == {frame % n}

\* ------------------------------------------------------------------ Init
\* The state inside App::create just before vulkan.do_upload(): the device,
\* swapchain and framebuffer set exist, nothing was submitted yet.
InitWith(layout) ==
    /\ pc = "create"
    /\ tick = 0
    /\ exit = FALSE
    /\ size = default_window_size
    /\ recreate_swapchain = TRUE
    /\ all_materials = << >>
    /\ all_circles = << >>
    /\ kernel_offset = default_kernel_offset
    /\ material_buffer = None
    /\ material_buffer_size = 0
    /\ circle_buffer = None
    /\ circle_buffer_size = 0
    /\ geom_set = None
    /\ geom_layout = layout
    /\ swapchain = [gen |-> 0, extent |-> default_window_size]
    /\ images = MinImageCount
    /\ buffers = setup_framebuffer(swapchain, images).buffers
    /\ viewport = setup_framebuffer(swapchain, images).viewport
    /\ uploads = Some("uploads")
    /\ previous_frame_end = Some(NowSignal)
    /\ should_recreate_swapchain = FALSE
    /\ acquire_future = None
    /\ current_image_index = 0
    /\ render_pass = None
    /\ status = None
    /\ submissions = << >>
    /\ sync_log = NoSync
    /\ mutated = FALSE
    /\ scene_ops = 0
    /\ faults = 0
    /\ recreate_log = << >>
    /\ stale = "never"
    /\ suboptimal_seen = "never"

\* The program as built: the offscreen pipeline has the geometry set layout.
Init == InitWith(TRUE)

\* The program with an offscreen pipeline whose shaders declare no set 1
\* ("geometry not yet used by the shader").
InitNoLayout == InitWith(FALSE)

Panic == pc' = "panicked"

\* Vk::wait_frame, as a step of another operation: cleanup_finished() on the
\* stored signal, which must be there.
WaitFrameOk == IsSome(previous_frame_end)

\* Vk::do_upload (called once, from App::create): wait_frame, then the
\* upload builder is taken and executed and its signal stored.
DoUpload ==
    /\ pc = "create"
    /\ IF WaitFrameOk /\ IsSome(uploads)
       THEN /\ uploads' = None
            /\ previous_frame_end' = Some(UploadSignal)
            /\ pc' = "setup"
       ELSE /\ Panic
            /\ UNCHANGED << uploads, previous_frame_end >>
    /\ UNCHANGED << tick, exit, size, recreate_swapchain, scene_vars, mirror_vars,
                    geom_layout, chain_vars, should_recreate_swapchain,
                    acquire_future, current_image_index, render_pass, status,
                    submissions, sync_log, mutated, budget_vars, recreate_log, stale,
                    suboptimal_seen >>


\* ------------------------------------------------------- scene mutation
\* main.rs builds the scene between App::create and main_loop: a setter is
\* called on the handle add_material / add_circle returned, the last entry.
\* Inside the loop the UI callback holds the whole scene.
CanTouch(coll, i) ==
    \/ pc = "setup" /\ i = Len(coll)
    \/ pc = "run_ui"

\* The bounds on what one run explores.
SceneOp ==
    /\ faults = 0
    /\ scene_ops < MaxSceneOps
    /\ scene_ops' = scene_ops + 1
    /\ UNCHANGED faults

Fault(n) ==
    /\ n > 0 => scene_ops + faults + n <= MaxFaults
    /\ faults' = faults + n
    /\ UNCHANGED scene_ops

ChangeScene ==
    /\ mutated' = TRUE
    /\ UNCHANGED << kernel_offset, pc, loop_vars, mirror_vars, geom_layout, chain_vars, uploads,
                    timeline_vars, frame_vars, sync_log, recreate_log, stale,
                    suboptimal_seen >>

\* App::add_material (app.rs 573-580)
AddMaterial ==
    /\ pc = "setup"
    /\ all_materials' = add_entry(all_materials, Material_new)
    /\ SceneOp
    /\ UNCHANGED all_circles
    /\ ChangeScene

\* App::add_circle (app.rs 564-571)
AddCircle ==
    /\ pc = "setup"
    /\ all_circles' = add_entry(all_circles, Circle_new)
    /\ SceneOp
    /\ UNCHANGED all_materials
    /\ ChangeScene

SetMaterial(i, m) ==
    /\ CanTouch(all_materials, i)
    /\ all_materials' = [all_materials EXCEPT ![i] = m]
    /\ UNCHANGED all_circles
    /\ ChangeScene

SetCircle(i, c) ==
    /\ CanTouch(all_circles, i)
    /\ all_circles' = [all_circles EXCEPT ![i] = c]
    /\ UNCHANGED all_materials
    /\ ChangeScene


\* A call of a builder setter with a value other than the stored one.
CallColor ==
    \E i \in 1..Len(all_materials) : \E v \in ColorVals \ {all_materials[i].color} :
        SceneOp /\ SetMaterial(i, Material_color(all_materials[i], v))

CallEmission ==
    \E i \in 1..Len(all_materials) : \E v \in EmissionVals \ {all_materials[i].emission} :
        SceneOp /\ SetMaterial(i, Material_emission(all_materials[i], v))

CallSmoothness ==
    \E i \in 1..Len(all_materials) : \E v \in SmoothnessVals \ {all_materials[i].smoothness} :
        SceneOp /\ SetMaterial(i, Material_smoothness(all_materials[i], v))

CallPosition ==
    \E i \in 1..Len(all_circles) : \E v \in PositionVals \ {all_circles[i].position} :
        SceneOp /\ SetCircle(i, Circle_position(all_circles[i], v))

CallRadius ==
    \E i \in 1..Len(all_circles) : \E v \in RadiusVals \ {all_circles[i].radius} :
        SceneOp /\ SetCircle(i, Circle_radius(all_circles[i], v))

CallMaterial ==
    \E i \in 1..Len(all_circles) : \E v \in MaterialVals \ {all_circles[i].material} :
        SceneOp /\ SetCircle(i, Circle_material(all_circles[i], v))

\* A call of mark_dirty on an entry.
CallMarkDirtyMaterial ==
    \E i \in 1..Len(all_materials) :
        SceneOp /\ SetMaterial(i, mark_dirty(all_materials[i]))

CallMarkDirtyCircle ==
    \E i \in 1..Len(all_circles) :
        SceneOp /\ SetCircle(i, mark_dirty(all_circles[i]))

\* The UI of main.rs (64-77, 97-115): a widget writes the field in place and,
\* when it reports a change, the callback calls mark_dirty.
UiEditMaterial ==
    /\ pc = "run_ui"
    /\ \E i \in 1..Len(all_materials) :
         LET m == all_materials[i]
         IN  \E e \in {[m EXCEPT !.color = v] : v \in ColorVals \ {m.color}}
                  \cup {[m EXCEPT !.emission = v] : v \in EmissionVals \ {m.emission}}
                  \cup {[m EXCEPT !.smoothness = v] : v \in SmoothnessVals \ {m.smoothness}} :
                SceneOp /\ SetMaterial(i, mark_dirty(e))

UiEditCircle ==
    /\ pc = "run_ui"
    /\ \E i \in 1..Len(all_circles) :
         LET c == all_circles[i]
         IN  \E e \in {[c EXCEPT !.position = v] : v \in PositionVals \ {c.position}}
                  \cup {[c EXCEPT !.radius = v] : v \in RadiusVals \ {c.radius}} :
                SceneOp /\ SetCircle(i, mark_dirty(e))

\* The UI callback holds &mut Scene, whose collections are public: it may
\* push a new default entry (its index field stays usize::MAX).
UiPushMaterial ==
    /\ pc = "run_ui"
    /\ all_materials' = Append(all_materials, Material_new)
    /\ SceneOp
    /\ UNCHANGED all_circles
    /\ ChangeScene

UiPushCircle ==
    /\ pc = "run_ui"
    /\ all_circles' = Append(all_circles, Circle_new)
    /\ SceneOp
    /\ UNCHANGED all_materials
    /\ ChangeScene

\* The denoiser controls of the UI (main.rs 53-57) write Scene.kernel_offset
\* in place; the field is public and the callback holds &mut Scene.
UiKernelOffset ==
    /\ pc = "run_ui"
    /\ \E k \in KernelOffsetVals \ {kernel_offset} : kernel_offset' = k
    /\ SceneOp
    /\ UNCHANGED << pc, loop_vars, all_materials, all_circles, mirror_vars,
                    geom_layout, chain_vars, uploads, timeline_vars, frame_vars,
                    sync_log, mutated, recreate_log, stale,
                    suboptimal_seen >>

\* app.main_loop() (main.rs 180)
StartLoop ==
    /\ pc = "setup"
    /\ pc' = "events"
    /\ UNCHANGED << loop_vars, scene_vars, mirror_vars, geom_layout, chain_vars,
                    uploads, timeline_vars, frame_vars, sync_log, mutated, budget_vars,
                    recreate_log, stale,
                    suboptimal_seen >>


\* ------------------------------------------------------------ event loop
\* A loop that waits for events again whatever was asked.
EndOfTick_ignores_exit == "events"

\* Where the handler of one loop iteration stops: once set_exit() was
\* called the loop ends with the iteration that is under way.
EndOfTick == IF exit THEN "exited" ELSE "events"

\* A resize that ignores a zero-area size.
resize_skips_zero(app, width, height) ==
    IF width = 0 \/ height = 0
    THEN app
    ELSE [app EXCEPT !.size = << width, height >>, !.recreate_swapchain = TRUE]

\* App::resize (app.rs 331-335): the size and the flag of the App.
resize(app, width, height) ==
    [app EXCEPT !.size = << width, height >>, !.recreate_swapchain = TRUE]

\* The handler of WindowEvent::Resized (app.rs 375-381) calls App::resize.
Resized ==
    /\ pc = "events"
    /\ \E s \in Sizes :
         LET app == resize([size |-> size, recreate_swapchain |-> recreate_swapchain],
                           s[1], s[2])
         IN  /\ size' = app.size
             /\ recreate_swapchain' = app.recreate_swapchain
    /\ Fault(1)
    /\ UNCHANGED << pc, tick, exit, scene_vars, mirror_vars, geom_layout,
                    chain_vars, uploads, timeline_vars, frame_vars, sync_log,
                    mutated, recreate_log, stale,
                    suboptimal_seen >>

\* WindowEvent::CloseRequested (app.rs 369-374); a repeated request changes
\* nothing and is left out.
CloseRequested ==
    /\ pc = "events"
    /\ ~exit
    /\ exit' = TRUE
    /\ Fault(1)
    /\ UNCHANGED << pc, tick, size, recreate_swapchain, scene_vars, mirror_vars,
                    geom_layout, chain_vars, uploads, timeline_vars, frame_vars,
                    sync_log, mutated, recreate_log, stale,
                    suboptimal_seen >>

\* A handler that recreates the swapchain in every tick, asked or not.
MainEventsCleared_recreates_every_tick ==
    /\ pc = "events"
    /\ tick < MaxTicks
    /\ tick' = tick + 1
    /\ submissions' = << >>
    /\ stale' = IF stale = "this_tick" THEN "last_tick"
                ELSE IF stale = "last_tick" THEN "earlier" ELSE stale
    /\ suboptimal_seen' = IF suboptimal_seen = "this_tick" THEN "last_tick"
                          ELSE IF suboptimal_seen = "last_tick" THEN "earlier"
                          ELSE suboptimal_seen
    /\ recreate_swapchain' = FALSE
    /\ \E outcome \in RecreateOutcomes(size) :
       \E newcount \in {MinImageCount, MinImageCount + 1} :
         LET r == Vk_recreate_swapchain(swapchain, images, buffers,
                                        viewport, size, outcome, newcount)
         IN  /\ swapchain' = r.swapchain
             /\ images' = r.images
             /\ buffers' = r.buffers
             /\ viewport' = r.viewport
             /\ recreate_log' = << [size |-> size, outcome |-> outcome] >>
             /\ pc' = IF outcome = "error" THEN "fatal" ELSE "redraw"
             /\ Fault((IF outcome /= "ok" /\ "ok" \in RecreateOutcomes(size)
                        THEN 1 ELSE 0)
                      + (IF r.images /= images THEN 1 ELSE 0))
    /\ UNCHANGED << exit, size, scene_vars, mirror_vars, geom_layout, uploads,
                    timeline_vars, render_pass, status, sync_log, mutated >>

\* Event::MainEventsCleared (app.rs 391-410): a pending recreation is
\* cleared and carried out with the cached size, then a redraw is requested.
\* A recreation that fails with anything but ImageExtentNotSupported panics.
MainEventsCleared ==
    /\ pc = "events"
    /\ tick < MaxTicks
    /\ tick' = tick + 1
    /\ submissions' = << >>
    /\ stale' = IF stale = "this_tick" THEN "last_tick"
                ELSE IF stale = "last_tick" THEN "earlier" ELSE stale
    /\ suboptimal_seen' = IF suboptimal_seen = "this_tick" THEN "last_tick"
                          ELSE IF suboptimal_seen = "last_tick" THEN "earlier"
                          ELSE suboptimal_seen
    /\ IF recreate_swapchain
       THEN /\ recreate_swapchain' = FALSE
            /\ \E outcome \in RecreateOutcomes(size) :
               \E newcount \in {MinImageCount, MinImageCount + 1} :
                 LET r == Vk_recreate_swapchain(swapchain, images, buffers,
                                                viewport, size, outcome, newcount)
                 IN  /\ swapchain' = r.swapchain
                     /\ images' = r.images
                     /\ buffers' = r.buffers
                     /\ viewport' = r.viewport
                     /\ recreate_log' = << [size |-> size, outcome |-> outcome] >>
                     /\ pc' = IF outcome = "error" THEN "fatal" ELSE "redraw"
                     /\ Fault((IF outcome /= "ok" /\ "ok" \in RecreateOutcomes(size)
                                THEN 1 ELSE 0)
                              + (IF r.images /= images THEN 1 ELSE 0))
       ELSE /\ recreate_log' = << >>
            /\ pc' = "redraw"
            /\ UNCHANGED << recreate_swapchain, chain_vars, budget_vars >>
    /\ UNCHANGED << exit, size, scene_vars, mirror_vars, geom_layout, uploads,
                    timeline_vars, render_pass, status, sync_log, mutated >>

\* A redraw that goes on to wait_frame with a zero-area cached size.
RedrawZeroSize_goes_on ==
    /\ pc = "redraw"
    /\ size[1] = 0 \/ size[2] = 0
    /\ pc' = "wait_frame"
    /\ UNCHANGED << loop_vars, scene_vars, mirror_vars, geom_layout, chain_vars,
                    uploads, timeline_vars, frame_vars, sync_log, mutated, budget_vars,
                    recreate_log, stale, suboptimal_seen >>

\* Event::RedrawRequested with a zero-area cached size (app.rs 411-414)
RedrawZeroSize ==
    /\ pc = "redraw"
    /\ size[1] = 0 \/ size[2] = 0
    /\ pc' = EndOfTick
    /\ UNCHANGED << loop_vars, scene_vars, mirror_vars, geom_layout, chain_vars,
                    uploads, timeline_vars, frame_vars, sync_log, mutated, budget_vars,
                    recreate_log, stale,
                    suboptimal_seen >>

\* A redraw that goes on to wait_frame without the buffer sync.
CheckBuffers_skipped ==
    /\ pc = "redraw"
    /\ ~(size[1] = 0 \/ size[2] = 0)
    /\ pc' = "wait_frame"
    /\ UNCHANGED << loop_vars, scene_vars, mirror_vars, geom_layout, chain_vars,
                    uploads, timeline_vars, frame_vars, sync_log, mutated,
                    budget_vars, recreate_log, stale,
                    suboptimal_seen >>

\* App::check_buffers (app.rs 239-329), the first call of RedrawRequested:
\* materials, then circles, then the geometry descriptor set.
CheckBuffers ==
    /\ pc = "redraw"
    /\ ~(size[1] = 0 \/ size[2] = 0)
    /\ \E mheld \in HeldChoices(material_buffer) :
       \E cheld \in HeldChoices(circle_buffer) :
         LET m == SyncCollection(all_materials, material_buffer,
                                 material_buffer_size, mheld, "material")
             c == SyncCollection(all_circles, circle_buffer,
                                 circle_buffer_size, cheld, "circle")
             update_descriptors == m.update_descriptors \/ c.update_descriptors
         IN  /\ all_materials' = m.coll
             /\ material_buffer' = m.buf
             /\ material_buffer_size' = m.size
             /\ all_circles' = c.coll
             /\ circle_buffer' = c.buf
             /\ circle_buffer_size' = c.size
             /\ geom_set' = RebuildGeomSet(geom_set, update_descriptors,
                                           geom_layout, m.buf, c.buf)
             /\ sync_log' = [ran |-> TRUE,
                             first |-> ~sync_log.ran,
                             tick |-> tick,
                             runs |-> IF sync_log.ran /\ sync_log.tick = tick
                                      THEN sync_log.runs + 1 ELSE 1,
                             clean_start |-> sync_log.ran /\ ~mutated,
                             rebuilt |-> update_descriptors /\ geom_layout,
                             after_failed |-> [m |-> sync_log.m.failed /= {},
                                               c |-> sync_log.c.failed /= {}],
                             m |-> RunLog(all_materials, material_buffer_size, m),
                             c |-> RunLog(all_circles, circle_buffer_size, c)]
    /\ mutated' = FALSE
    /\ pc' = "wait_frame"
    /\ UNCHANGED << loop_vars, kernel_offset, geom_layout, chain_vars, uploads,
                    timeline_vars, frame_vars, budget_vars, recreate_log, stale,
                    suboptimal_seen >>

\* Vk::wait_frame (vk.rs 463-465)
WaitFrame ==
    /\ pc = "wait_frame"
    /\ IF WaitFrameOk THEN pc' = "run_ui" ELSE Panic
    /\ UNCHANGED << loop_vars, scene_vars, mirror_vars, geom_layout, chain_vars,
                    uploads, timeline_vars, frame_vars, sync_log, mutated, budget_vars,
                    recreate_log, stale,
                    suboptimal_seen >>

\* The UI callback returns (app.rs 420-427): a cleared run flag asks the
\* loop to exit.
UiReturn ==
    /\ pc = "run_ui"
    /\ \E run \in BOOLEAN :
         /\ exit' = (exit \/ ~run)
         /\ Fault(IF run THEN 0 ELSE 1)
    /\ pc' = "begin_frame"
    /\ UNCHANGED << tick, size, recreate_swapchain, scene_vars, mirror_vars,
                    geom_layout, chain_vars, uploads, timeline_vars, frame_vars,
                    sync_log, mutated, recreate_log, stale,
                    suboptimal_seen >>


\* -------------------------------------------------------- frame timeline
\* The timeline fields of Vk, gathered for the operators below.
VkState ==
    [previous_frame_end |-> previous_frame_end,
     should_recreate_swapchain |-> should_recreate_swapchain,
     acquire_future |-> acquire_future,
     current_image_index |-> current_image_index]

\* What acquire_next_image may answer: OutOfDate, another error (a timeout
\* included), or an image index with the suboptimal flag.
AcquireOutcomes(frame, n) ==
    {[kind |-> "out_of_date", image_index |-> 0, suboptimal |-> FALSE],
     [kind |-> "error", image_index |-> 0, suboptimal |-> FALSE]}
    \cup {[kind |-> "ok", image_index |-> i, suboptimal |-> b] :
            i \in AcquirableIndices(frame, n), b \in BOOLEAN}

\* What the flush of the composite submission with its present may answer.
FlushOutcomes == {"ok", "out_of_date", "error"}

\* A recording (command buffer builder) inside a render pass begun on the
\* framebuffer of one image of the framebuffer set.  ray_views are the
\* offscreen attachment views the handler got from next_render_pass and
\* binds in the composite descriptor set (app.rs 493-497, 519-522).
Recording(pass, fbs, image_index) ==
    [pass |-> pass, chain |-> fbs[image_index + 1].chain, framebuffer |-> image_index,
     view |-> FALSE, geom |-> None, draws |-> 0, render_info |-> None,
     ray_views |-> None]

\* buffers.as_ref().unwrap()[index] succeeds
HasFramebuffer(fbs, index) == IsSome(fbs) /\ index < Len(Unwrap(fbs))

\* A begin_frame that hands out a recording although acquisition failed.
begin_frame_unacquired(vk, fbs, frame, outcome) ==
    IF outcome.kind = "out_of_date"
    THEN [vk |-> [vk EXCEPT !.should_recreate_swapchain = TRUE],
          recording |-> None, panic |-> FALSE]
    ELSE IF ~HasFramebuffer(fbs, outcome.image_index)
    THEN [vk |-> vk, recording |-> None, panic |-> TRUE]
    ELSE IF outcome.kind = "error"
    THEN [vk |-> vk,
          recording |-> Some(Recording("offscreen", Unwrap(fbs), vk.current_image_index)),
          panic |-> FALSE]
    ELSE [vk |-> [vk EXCEPT
                    !.should_recreate_swapchain = outcome.suboptimal,
                    !.acquire_future = Some([frame |-> frame,
                                             image |-> outcome.image_index]),
                    !.current_image_index = outcome.image_index],
          recording |-> Some(Recording("offscreen", Unwrap(fbs), outcome.image_index)),
          panic |-> FALSE]

\* A begin_frame that asks for a recreation on every acquisition error.
begin_frame_flags_error(vk, fbs, frame, outcome) ==
    IF outcome.kind \in {"out_of_date", "error"}
    THEN [vk |-> [vk EXCEPT !.should_recreate_swapchain = TRUE],
          recording |-> None, panic |-> FALSE]
    ELSE IF ~HasFramebuffer(fbs, outcome.image_index)
    THEN [vk |-> vk, recording |-> None, panic |-> TRUE]
    ELSE [vk |-> [vk EXCEPT
                    !.should_recreate_swapchain = outcome.suboptimal,
                    !.acquire_future = Some([frame |-> frame,
                                             image |-> outcome.image_index]),
                    !.current_image_index = outcome.image_index],
          recording |-> Some(Recording("offscreen", Unwrap(fbs), outcome.image_index)),
          panic |-> FALSE]

\* A begin_frame that skips the frame on a stale surface without asking for
\* a recreation.
begin_frame_stale_unflagged(vk, fbs, frame, outcome) ==
    IF outcome.kind \in {"out_of_date", "error"}
    THEN [vk |-> vk, recording |-> None, panic |-> FALSE]
    ELSE IF ~HasFramebuffer(fbs, outcome.image_index)
    THEN [vk |-> vk, recording |-> None, panic |-> TRUE]
    ELSE [vk |-> [vk EXCEPT
                    !.should_recreate_swapchain = outcome.suboptimal,
                    !.acquire_future = Some([frame |-> frame,
                                             image |-> outcome.image_index]),
                    !.current_image_index = outcome.image_index],
          recording |-> Some(Recording("offscreen", Unwrap(fbs), outcome.image_index)),
          panic |-> FALSE]

\* A begin_frame that gives the frame up when the swapchain is suboptimal.
begin_frame_suboptimal_skips(vk, fbs, frame, outcome) ==
    IF outcome.kind = "out_of_date" \/ (outcome.kind = "ok" /\ outcome.suboptimal)
    THEN [vk |-> [vk EXCEPT !.should_recreate_swapchain = TRUE],
          recording |-> None, panic |-> FALSE]
    ELSE IF outcome.kind = "error"
    THEN [vk |-> vk, recording |-> None, panic |-> FALSE]
    ELSE IF ~HasFramebuffer(fbs, outcome.image_index)
    THEN [vk |-> vk, recording |-> None, panic |-> TRUE]
    ELSE [vk |-> [vk EXCEPT
                    !.should_recreate_swapchain = outcome.suboptimal,
                    !.acquire_future = Some([frame |-> frame,
                                             image |-> outcome.image_index]),
                    !.current_image_index = outcome.image_index],
          recording |-> Some(Recording("offscreen", Unwrap(fbs), outcome.image_index)),
          panic |-> FALSE]

\* Vk::begin_frame (vk.rs 481-520)
begin_frame(vk, fbs, frame, outcome) ==
    IF outcome.kind = "out_of_date"
    THEN [vk |-> [vk EXCEPT !.should_recreate_swapchain = TRUE],
          recording |-> None, panic |-> FALSE]
    ELSE IF outcome.kind = "error"
    THEN [vk |-> vk, recording |-> None, panic |-> FALSE]
    ELSE IF ~HasFramebuffer(fbs, outcome.image_index)
    THEN [vk |-> vk, recording |-> None, panic |-> TRUE]
    ELSE [vk |-> [vk EXCEPT
                    !.should_recreate_swapchain = outcome.suboptimal,
                    !.acquire_future = Some([frame |-> frame,
                                             image |-> outcome.image_index]),
                    !.current_image_index = outcome.image_index],
          recording |-> Some(Recording("offscreen", Unwrap(fbs), outcome.image_index)),
          panic |-> FALSE]

\* A next_render_pass that submits the offscreen recording and keeps the
\* older signal stored instead of the one of that submission.
next_render_pass_unchained(vk, fbs, recording, frame) ==
    IF IsNone(vk.previous_frame_end) \/ ~HasFramebuffer(fbs, vk.current_image_index)
    THEN [vk |-> vk, recording |-> recording, submission |-> None, views |-> None,
          panic |-> TRUE]
    ELSE [vk |-> vk,
          recording |-> Recording("composite", Unwrap(fbs), vk.current_image_index),
          submission |-> Some([pass |-> "offscreen", frame |-> frame,
                               recorded |-> recording,
                               after |-> Unwrap(vk.previous_frame_end),
                               acquire |-> None, present |-> None,
                               result |-> "ok"]),
          views |-> Some([chain |-> Unwrap(fbs)[vk.current_image_index + 1].chain,
                          image |-> vk.current_image_index]),
          panic |-> FALSE]

\* A next_render_pass whose submission joins and consumes the acquire signal.
next_render_pass_joins_acquire(vk, fbs, recording, frame) ==
    IF IsNone(vk.previous_frame_end) \/ ~HasFramebuffer(fbs, vk.current_image_index)
    THEN [vk |-> vk, recording |-> recording, submission |-> None, views |-> None,
          panic |-> TRUE]
    ELSE [vk |-> [vk EXCEPT !.previous_frame_end = Some(FrameSignal("offscreen", frame)),
                            !.acquire_future = None],
          recording |-> Recording("composite", Unwrap(fbs), vk.current_image_index),
          submission |-> Some([pass |-> "offscreen", frame |-> frame,
                               recorded |-> recording,
                               after |-> Unwrap(vk.previous_frame_end),
                               acquire |-> vk.acquire_future, present |-> None,
                               result |-> "ok"]),
          views |-> Some([chain |-> Unwrap(fbs)[vk.current_image_index + 1].chain,
                          image |-> vk.current_image_index]),
          panic |-> FALSE]

\* A next_render_pass that begins the composite pass on the screen
\* framebuffer of the first image.
next_render_pass_first_framebuffer(vk, fbs, recording, frame) ==
    IF IsNone(vk.previous_frame_end) \/ ~HasFramebuffer(fbs, vk.current_image_index)
    THEN [vk |-> vk, recording |-> recording, submission |-> None, views |-> None,
          panic |-> TRUE]
    ELSE [vk |-> [vk EXCEPT !.previous_frame_end = Some(FrameSignal("offscreen", frame))],
          recording |-> Recording("composite", Unwrap(fbs), 0),
          submission |-> Some([pass |-> "offscreen", frame |-> frame,
                               recorded |-> recording,
                               after |-> Unwrap(vk.previous_frame_end),
                               acquire |-> None, present |-> None,
                               result |-> "ok"]),
          views |-> Some([chain |-> Unwrap(fbs)[vk.current_image_index + 1].chain,
                          image |-> vk.current_image_index]),
          panic |-> FALSE]

\* Vk::next_render_pass (vk.rs 522-564): the offscreen recording is ended
\* and submitted after the stored signal, the fence signal of that submission
\* is stored, and the composite pass is begun on the screen framebuffer of
\* the current image, whose attachment views are returned.
next_render_pass(vk, fbs, recording, frame) ==
    IF IsNone(vk.previous_frame_end) \/ ~HasFramebuffer(fbs, vk.current_image_index)
    THEN [vk |-> vk, recording |-> recording, submission |-> None, views |-> None,
          panic |-> TRUE]
    ELSE [vk |-> [vk EXCEPT !.previous_frame_end = Some(FrameSignal("offscreen", frame))],
          recording |-> Recording("composite", Unwrap(fbs), vk.current_image_index),
          submission |-> Some([pass |-> "offscreen", frame |-> frame,
                               recorded |-> recording,
                               after |-> Unwrap(vk.previous_frame_end),
                               acquire |-> None, present |-> None,
                               result |-> "ok"]),
          views |-> Some([chain |-> Unwrap(fbs)[vk.current_image_index + 1].chain,
                          image |-> vk.current_image_index]),
          panic |-> FALSE]

\* A tail that never reports the pending flag.
TakeStatus_silent(vk) == [vk |-> vk, status |-> "Ok"]

\* A tail of end_frame that reports the pending flag and leaves it set.
TakeStatus_keeps_flag(vk) ==
    [vk |-> vk,
     status |-> IF vk.should_recreate_swapchain THEN "ShouldRecreateSwapchain" ELSE "Ok"]

\* The tail of Vk::end_frame: report and clear the pending flag.
TakeStatus(vk) ==
    IF vk.should_recreate_swapchain
    THEN [vk |-> [vk EXCEPT !.should_recreate_swapchain = FALSE],
          status |-> "ShouldRecreateSwapchain"]
    ELSE [vk |-> vk, status |-> "Ok"]

\* An end_frame that stores no signal when the flush fails.
AfterFlush_forgetful(vk, frame, outcome) ==
    IF outcome = "ok"
    THEN [vk EXCEPT !.previous_frame_end = Some(FrameSignal("composite", frame))]
    ELSE IF outcome = "out_of_date"
    THEN [vk EXCEPT !.should_recreate_swapchain = TRUE]
    ELSE vk

\* An end_frame that keeps the signal of the failed flush on a stale surface.
AfterFlush_stale_stores_frame(vk, frame, outcome) ==
    IF outcome = "ok"
    THEN [vk EXCEPT !.previous_frame_end = Some(FrameSignal("composite", frame))]
    ELSE IF outcome = "out_of_date"
    THEN [vk EXCEPT !.should_recreate_swapchain = TRUE,
                    !.previous_frame_end = Some(FrameSignal("composite", frame))]
    ELSE [vk EXCEPT !.previous_frame_end = Some(NowSignal)]

\* An end_frame that asks for a recreation on every flush error.
AfterFlush_error_flags(vk, frame, outcome) ==
    IF outcome = "ok"
    THEN [vk EXCEPT !.previous_frame_end = Some(FrameSignal("composite", frame))]
    ELSE [vk EXCEPT !.should_recreate_swapchain = TRUE,
                    !.previous_frame_end = Some(NowSignal)]

\* The signal end_frame stores for a flush outcome (vk.rs 597-609).
AfterFlush(vk, frame, outcome) ==
    IF outcome = "ok"
    THEN [vk EXCEPT !.previous_frame_end = Some(FrameSignal("composite", frame))]
    ELSE IF outcome = "out_of_date"
    THEN [vk EXCEPT !.should_recreate_swapchain = TRUE,
                    !.previous_frame_end = Some(NowSignal)]
    ELSE [vk EXCEPT !.previous_frame_end = Some(NowSignal)]

\* A take that leaves the image-acquired signal stored.
TakeSignals_keep_acquire(vk) == [vk EXCEPT !.previous_frame_end = None]

\* previous_frame_end.take() and acquire_future.take() of end_frame
\* (vk.rs 585-590): both fields are left None.
TakeSignals(vk) ==
    [vk EXCEPT !.previous_frame_end = None, !.acquire_future = None]

\* An end_frame that submits the composite pass without asking for a present.
end_frame_unpresented(vk, chain, recording, frame, outcome) ==
    IF IsNone(recording)
    THEN [vk |-> TakeStatus(vk).vk, status |-> Some(TakeStatus(vk).status),
          submission |-> None, panic |-> FALSE]
    ELSE IF IsNone(vk.previous_frame_end) \/ IsNone(vk.acquire_future)
    THEN [vk |-> vk, status |-> None, submission |-> None, panic |-> TRUE]
    ELSE LET taken == TakeSignals(vk)
             flushed == AfterFlush(taken, frame, outcome)
         IN  [vk |-> TakeStatus(flushed).vk,
              status |-> Some(TakeStatus(flushed).status),
              submission |-> Some([pass |-> "composite", frame |-> frame,
                                   recorded |-> Unwrap(recording),
                                   after |-> Unwrap(vk.previous_frame_end),
                                   acquire |-> vk.acquire_future,
                                   present |-> None,
                                   result |-> outcome]),
              panic |-> FALSE]

\* Vk::end_frame (vk.rs 566-616)
end_frame(vk, chain, recording, frame, outcome) ==
    IF IsNone(recording)
    THEN [vk |-> TakeStatus(vk).vk, status |-> Some(TakeStatus(vk).status),
          submission |-> None, panic |-> FALSE]
    ELSE IF IsNone(vk.previous_frame_end) \/ IsNone(vk.acquire_future)
    THEN [vk |-> vk, status |-> None, submission |-> None, panic |-> TRUE]
    ELSE LET taken == TakeSignals(vk)
             flushed == AfterFlush(taken, frame, outcome)
         IN  [vk |-> TakeStatus(flushed).vk,
              status |-> Some(TakeStatus(flushed).status),
              submission |-> Some([pass |-> "composite", frame |-> frame,
                                   recorded |-> Unwrap(recording),
                                   after |-> Unwrap(vk.previous_frame_end),
                                   acquire |-> vk.acquire_future,
                                   present |-> Some([chain |-> chain.gen,
                                                     image |-> vk.current_image_index]),
                                   result |-> outcome]),
              panic |-> FALSE]

SetVk(vk) ==
    /\ previous_frame_end' = vk.previous_frame_end
    /\ should_recreate_swapchain' = vk.should_recreate_swapchain
    /\ acquire_future' = vk.acquire_future
    /\ current_image_index' = vk.current_image_index

\* self.vulkan.begin_frame() in RedrawRequested (app.rs 432-433)
BeginFrame ==
    /\ pc = "begin_frame"
    /\ \E outcome \in AcquireOutcomes(tick, images) :
         LET r == begin_frame(VkState, buffers, tick, outcome)
         IN  /\ SetVk(r.vk)
             /\ render_pass' = r.recording
             /\ stale' = IF outcome.kind = "out_of_date" THEN "this_tick" ELSE stale
             /\ suboptimal_seen' = IF outcome.kind = "ok" /\ outcome.suboptimal
                                   THEN "this_tick" ELSE suboptimal_seen
             /\ pc' = IF r.panic THEN "panicked"
                      ELSE IF IsSome(r.recording) THEN "draw_offscreen"
                      ELSE "end_frame"
             /\ Fault(IF outcome.kind = "ok" /\ ~outcome.suboptimal THEN 0 ELSE 1)
    /\ UNCHANGED << loop_vars, scene_vars, mirror_vars, geom_layout, chain_vars,
                    uploads, status, submissions, sync_log, mutated, recreate_log >>

\* The offscreen draw (app.rs 436-487): the view set at binding point 0, the
\* geometry set at binding point 1 when there is one, one draw of the quad.
DrawOffscreen ==
    /\ pc = "draw_offscreen"
    /\ render_pass' = Some([Unwrap(render_pass) EXCEPT !.view = TRUE,
                                                       !.geom = geom_set,
                                                       !.draws = @ + 1])
    /\ pc' = "next_render_pass"
    /\ UNCHANGED << loop_vars, scene_vars, mirror_vars, geom_layout, chain_vars,
                    uploads, timeline_vars, status, submissions, sync_log, mutated,
                    budget_vars, recreate_log, stale,
                    suboptimal_seen >>

\* A buffer bound by the geometry set of a submitted recording is referenced
\* by that submission from then on.
MarkUsed(buf, ref) ==
    IF IsSome(buf) /\ ref = Some(Unwrap(buf).gen)
    THEN Some([Unwrap(buf) EXCEPT !.used = TRUE])
    ELSE buf

\* self.vulkan.next_render_pass(render_pass) (app.rs 493-497)
NextRenderPass ==
    /\ pc = "next_render_pass"
    /\ LET r == next_render_pass(VkState, buffers, Unwrap(render_pass), tick)
           bound == Unwrap(render_pass).geom
       IN  /\ SetVk(r.vk)
           /\ IF r.panic
              THEN /\ Panic
                   /\ UNCHANGED << render_pass, submissions, material_buffer,
                                   circle_buffer >>
              ELSE /\ render_pass' = Some([r.recording EXCEPT !.ray_views = r.views])
                   /\ submissions' = Append(submissions, Unwrap(r.submission))
                   /\ material_buffer' =
                        IF IsSome(bound)
                        THEN MarkUsed(material_buffer, Unwrap(bound).material)
                        ELSE material_buffer
                   /\ circle_buffer' =
                        IF IsSome(bound)
                        THEN MarkUsed(circle_buffer, Unwrap(bound).circle)
                        ELSE circle_buffer
                   /\ pc' = "draw_composite"
    /\ UNCHANGED << loop_vars, scene_vars, material_buffer_size, circle_buffer_size,
                    geom_set, geom_layout, chain_vars, uploads, status, sync_log,
                    mutated, budget_vars, recreate_log, stale,
                    suboptimal_seen >>

\* std::cmp::max on i32: the second argument unless the first is greater.
max(v1, v2) == IF v1 > v2 THEN v1 ELSE v2

\* A uniform block that takes the stored kernel offset as it is.
RenderInfo_unclamped(scene_kernel_offset) ==
    [kernel_offset |-> scene_kernel_offset]

\* shader::denoiser::fs::RenderInfo of the composite pass (app.rs 499-511),
\* its kernel_offset field.
RenderInfo(scene_kernel_offset) ==
    [kernel_offset |-> max(1, scene_kernel_offset)]

\* The composite draw and the UI draw commands (app.rs 499-547): the uniform
\* block is written and bound, the quad drawn.
DrawComposite ==
    /\ pc = "draw_composite"
    /\ render_pass' = Some([Unwrap(render_pass) EXCEPT
                               !.render_info = Some(RenderInfo(kernel_offset)),
                               !.draws = @ + 1])
    /\ pc' = "end_frame"
    /\ UNCHANGED << loop_vars, scene_vars, mirror_vars, geom_layout, chain_vars,
                    uploads, timeline_vars, status, submissions, sync_log, mutated,
                    budget_vars, recreate_log, stale,
                    suboptimal_seen >>

\* self.vulkan.end_frame(render_pass) (app.rs 549)
EndFrame ==
    /\ pc = "end_frame"
    /\ \E outcome \in FlushOutcomes :
         LET r == end_frame(VkState, swapchain, render_pass, tick, outcome)
         IN  /\ SetVk(r.vk)
             /\ status' = r.status
             /\ submissions' = IF IsSome(r.submission)
                               THEN Append(submissions, Unwrap(r.submission))
                               ELSE submissions
             /\ stale' = IF IsSome(r.submission) /\ outcome = "out_of_date"
                         THEN "this_tick" ELSE stale
             /\ pc' = IF r.panic THEN "panicked" ELSE "status"
             /\ Fault(IF IsSome(r.submission) /\ outcome /= "ok" THEN 1 ELSE 0)
    /\ render_pass' = None
    /\ UNCHANGED << loop_vars, scene_vars, mirror_vars, geom_layout, chain_vars,
                    uploads, sync_log, mutated, recreate_log, suboptimal_seen >>

\* A status match that recreates the swapchain on the spot.
HandleStatus_recreates_now ==
    /\ pc = "status"
    /\ IF status = Some("ShouldRecreateSwapchain")
       THEN LET r == Vk_recreate_swapchain(swapchain, images, buffers, viewport,
                                           size, "ok", images)
            IN  /\ swapchain' = r.swapchain
                /\ images' = r.images
                /\ buffers' = r.buffers
                /\ viewport' = r.viewport
       ELSE UNCHANGED chain_vars
    /\ status' = None
    /\ pc' = EndOfTick
    /\ UNCHANGED << loop_vars, scene_vars, mirror_vars, geom_layout, uploads,
                    timeline_vars, render_pass, submissions, sync_log, mutated,
                    budget_vars, recreate_log, stale,
                    suboptimal_seen >>

\* match status (app.rs 550-555): a reported ShouldRecreateSwapchain marks
\* the recreation pending; the handler returns.
HandleStatus ==
    /\ pc = "status"
    /\ recreate_swapchain' =
         IF status = Some("ShouldRecreateSwapchain") THEN TRUE ELSE recreate_swapchain
    /\ status' = None
    /\ pc' = EndOfTick
    /\ UNCHANGED << tick, exit, size, scene_vars, mirror_vars, geom_layout,
                    chain_vars, uploads, timeline_vars, render_pass, submissions,
                    sync_log, mutated, budget_vars, recreate_log, stale,
                    suboptimal_seen >>

Next ==
    \/ DoUpload
    \/ AddMaterial
    \/ AddCircle
    \/ CallColor
    \/ CallEmission
    \/ CallSmoothness
    \/ CallPosition
    \/ CallRadius
    \/ CallMaterial
    \/ CallMarkDirtyMaterial
    \/ CallMarkDirtyCircle
    \/ UiEditMaterial
    \/ UiEditCircle
    \/ UiPushMaterial
    \/ UiPushCircle
    \/ UiKernelOffset
    \/ StartLoop
    \/ Resized
    \/ CloseRequested
    \/ MainEventsCleared
    \/ RedrawZeroSize
    \/ CheckBuffers
    \/ WaitFrame
    \/ UiReturn
    \/ BeginFrame
    \/ DrawOffscreen
    \/ NextRenderPass
    \/ DrawComposite
    \/ EndFrame
    \/ HandleStatus

Spec == Init /\ [][Next]_vars

\* The same program around a pipeline without a set layout at index 1.
SpecNoLayout == InitNoLayout /\ [][Next]_vars

\* ------------------------------------------------------------- properties
\* C1: between any two Vk operations, whatever the acquisitions and presents
\* of the ticks so far answered, the previous-frame completion signal is
\* stored (exactly one value), so that no operation finds it absent and
\* panics.
C1_PreviousFrameSignalPresent ==
    /\ pc /= "panicked"
    /\ IsSome(previous_frame_end)
    /\ Len(previous_frame_end) = 1

\* C1 case: a present has just failed and a signal is stored all the same.
C1_Witness ==
    /\ pc = "status"
    /\ Len(submissions) = 2
    /\ submissions[2].result /= "ok"
    /\ previous_frame_end = Some(NowSignal)

\* C2: the image-acquired signal is stored exactly from a successful
\* begin_frame to the end_frame of the same tick; the composite submission is
\* the only one that joins it, it joins the one of its own frame, and it is
\* the submission that presents; end_frame never finds the signal missing.
C2_AcquireSignalJoinedOnce ==
    /\ pc /= "panicked"
    /\ IsSome(acquire_future) <=>
         \/ pc \in {"draw_offscreen", "next_render_pass", "draw_composite"}
         \/ pc = "end_frame" /\ IsSome(render_pass)
    /\ IsSome(acquire_future) => Unwrap(acquire_future).frame = tick
    /\ \A i \in 1..Len(submissions) :
         LET s == submissions[i]
         IN  IF s.pass = "composite"
             THEN /\ IsSome(s.present)
                  /\ s.acquire = Some([frame |-> s.frame,
                                       image |-> Unwrap(s.present).image])
             ELSE s.acquire = None /\ s.present = None
    /\ Cardinality({i \in 1..Len(submissions) : IsSome(submissions[i].acquire)}) <= 1

\* C2 case: a frame was presented with its acquire signal joined, and the
\* signal is no longer stored.
C2_Witness ==
    /\ pc = "status"
    /\ Len(submissions) = 2
    /\ IsSome(submissions[2].acquire)
    /\ IsNone(acquire_future)
    /\ tick > 1

\* C3: the composite submission of a frame comes right after the offscreen
\* submission of the same frame and is chained after the signal of that
\* offscreen submission, which is the stored previous-frame signal while the
\* composite pass is recorded.
C3_CompositeAfterOwnOffscreen ==
    /\ \A i \in 1..Len(submissions) :
         submissions[i].pass = "composite" =>
            /\ i > 1
            /\ submissions[i - 1].pass = "offscreen"
            /\ submissions[i - 1].frame = submissions[i].frame
            /\ submissions[i].after = FrameSignal("offscreen", submissions[i].frame)
    /\ (IsSome(render_pass) /\ Unwrap(render_pass).pass = "composite") =>
            previous_frame_end = Some(FrameSignal("offscreen", tick))

\* C3 case: the composite submission of a later frame was made.
C3_Witness ==
    /\ tick > 1
    /\ Len(submissions) = 2
    /\ submissions[2].pass = "composite"
    /\ submissions[2].after = FrameSignal("offscreen", tick)

\* C4: a tick walks Idle -> Acquired -> OffscreenSubmitted ->
\* CompositeRecording -> Presented: a recording exists only with an acquired
\* image; the offscreen recording precedes every submission of the tick; the
\* composite recording follows the offscreen submission of the tick; a
\* present is the second submission of its tick, after the offscreen one;
\* and between ticks nothing of the frame is left (Idle).
C4_FrameStateMachine ==
    /\ pc /= "panicked"
    /\ Len(submissions) <= 2
    /\ \A i \in 1..Len(submissions) :
         /\ submissions[i].frame = tick
         /\ submissions[i].pass = (IF i = 1 THEN "offscreen" ELSE "composite")
    /\ IsSome(render_pass) =>
         /\ IsSome(acquire_future)
         /\ Unwrap(acquire_future).frame = tick
         /\ pc \in {"draw_offscreen", "next_render_pass", "draw_composite", "end_frame"}
         /\ IF Unwrap(render_pass).pass = "offscreen"
            THEN submissions = << >> /\ pc \in {"draw_offscreen", "next_render_pass"}
            ELSE Len(submissions) = 1 /\ pc \in {"draw_composite", "end_frame"}
    /\ pc \in {"draw_offscreen", "next_render_pass", "draw_composite"} => IsSome(render_pass)
    /\ Len(submissions) = 2 => pc \in {"status", "events", "exited"}
    /\ pc \in {"events", "exited", "redraw", "wait_frame", "run_ui", "begin_frame"} =>
         /\ IsNone(acquire_future)
         /\ IsNone(render_pass)
         /\ IsNone(status)

\* C4 case: a later tick rendered, presented and is over.
C4_Witness ==
    /\ tick > 1
    /\ pc = "events"
    /\ Len(submissions) = 2
    /\ IsSome(submissions[2].present)

\* C5: a stale surface reported by the acquisition or the present of a tick
\* never ends the process; the recreation is pending when that tick is over,
\* and the next tick calls recreate_swapchain before anything else of it.
C5_StaleSurfaceRecreatedNextTick ==
    /\ stale /= "never" => pc /= "panicked"
    /\ (stale = "this_tick" /\ pc \in {"events", "exited"}) => recreate_swapchain
    /\ stale = "last_tick" => Len(recreate_log) = 1
    /\ pc = "exited" => exit

\* C5 case: the tick after a stale report recreated and goes on to
\* begin_frame.
C5_Witness ==
    /\ stale = "last_tick"
    /\ pc = "begin_frame"
    /\ Len(recreate_log) = 1
    /\ recreate_log[1].outcome = "ok"

\* C6: once check_buffers has returned (and until the scene is touched
\* again), for the materials and for the circles alike, the stored buffer
\* size is the collection length S and the current buffer, which exists as
\* soon as S > 0, was allocated for exactly S records; the failed-write path
\* included.
C6_BufferSizedToCollection ==
    (sync_log.ran /\ ~mutated) =>
        /\ material_buffer_size = Len(all_materials)
        /\ Len(all_materials) > 0 => IsSome(material_buffer)
        /\ IsSome(material_buffer) =>
             /\ Unwrap(material_buffer).cap = Len(all_materials)
             /\ Len(Unwrap(material_buffer).list) = Len(all_materials)
        /\ circle_buffer_size = Len(all_circles)
        /\ Len(all_circles) > 0 => IsSome(circle_buffer)
        /\ IsSome(circle_buffer) =>
             /\ Unwrap(circle_buffer).cap = Len(all_circles)
             /\ Len(Unwrap(circle_buffer).list) = Len(all_circles)

\* C6 case: check_buffers has just returned from the failed-write path on the
\* materials, with a buffer of the collection's length.
C6_Witness ==
    /\ pc = "wait_frame"
    /\ sync_log.m.failed /= {}
    /\ Len(all_materials) > 0
    /\ Unwrap(material_buffer).cap = Len(all_materials)
    /\ material_buffer_size = Len(all_materials)

\* C7: once check_buffers has returned, whichever path it took, every record
\* that was dirty when it started stands with its current value at its
\* position in the buffer that is current now.
C7_DirtyRecordsWritten ==
    (sync_log.ran /\ ~mutated) =>
        /\ \A k \in sync_log.m.dirty0 :
             /\ IsSome(material_buffer)
             /\ k \in DOMAIN Unwrap(material_buffer).list
             /\ Unwrap(material_buffer).list[k] = MaterialInto(all_materials[k])
        /\ \A k \in sync_log.c.dirty0 :
             /\ IsSome(circle_buffer)
             /\ k \in DOMAIN Unwrap(circle_buffer).list
             /\ Unwrap(circle_buffer).list[k] = CircleInto(all_circles[k])

\* C7 case: check_buffers has just returned from the failed-write path on the
\* circles, taken for a record that was dirty at the start, the length being
\* unchanged.
C7_Witness ==
    /\ pc = "wait_frame"
    /\ ~sync_log.c.resized
    /\ sync_log.c.failed /= {}
    /\ sync_log.c.failed \subseteq sync_log.c.dirty0

\* C8: when the length of a collection differed from the stored size at the
\* start of check_buffers, then at its return all S records (the clean ones
\* of before included) stand in the new buffer with their current values and
\* every flag is false; and after any run, no flag is false while its record
\* was never written to the current buffer.
C8_ResizeRewritesAll ==
    (sync_log.ran /\ ~mutated) =>
        /\ sync_log.m.resized =>
             \A k \in 1..Len(all_materials) :
                /\ ~all_materials[k].dirty
                /\ Unwrap(material_buffer).list[k] = MaterialInto(all_materials[k])
        /\ sync_log.c.resized =>
             \A k \in 1..Len(all_circles) :
                /\ ~all_circles[k].dirty
                /\ Unwrap(circle_buffer).list[k] = CircleInto(all_circles[k])
        /\ \A k \in 1..Len(all_materials) :
             ~all_materials[k].dirty => Unwrap(material_buffer).list[k] /= Uninit
        /\ \A k \in 1..Len(all_circles) :
             ~all_circles[k].dirty => Unwrap(circle_buffer).list[k] /= Uninit

\* C8 case: an entry was appended to materials that a run had left clean, and
\* the run that followed allocated and rewrote all of them.
C8_Witness ==
    /\ pc = "wait_frame"
    /\ sync_log.m.resized
    /\ Len(all_materials) >= 2
    /\ sync_log.m.dirty0 /= 1..Len(all_materials)
    /\ sync_log.m.writes = Len(all_materials)
    /\ \A k \in 1..Len(all_materials) : ~all_materials[k].dirty

\* C9: a run of check_buffers that starts with no scene mutation since the
\* run before it writes nothing, allocates nothing and rebuilds no descriptor
\* set.
C9_SecondRunIdle ==
    (pc = "wait_frame" /\ sync_log.clean_start) =>
        /\ sync_log.m.writes = 0
        /\ sync_log.m.allocs = 0
        /\ sync_log.c.writes = 0
        /\ sync_log.c.allocs = 0
        /\ ~sync_log.rebuilt

\* C10: a step that changes a value field of an entry (a builder setter
\* called with another value is such a step) leaves the entry dirty.
C10_SetterMarksDirty ==
    [][/\ \A i \in 1..Len(all_materials) :
             (/\ Len(all_materials') = Len(all_materials)
              /\ MaterialInto(all_materials'[i]) /= MaterialInto(all_materials[i]))
             => all_materials'[i].dirty
       /\ \A i \in 1..Len(all_circles) :
             (/\ Len(all_circles') = Len(all_circles)
              /\ CircleInto(all_circles'[i]) /= CircleInto(all_circles[i]))
             => all_circles'[i].dirty]_vars

\* C11: the first check_buffers after N >= 1 entries were appended with
\* add_material (add_circle) allocates exactly one buffer for the collection,
\* takes no failed-write path, writes all N records and leaves all N flags
\* false, with no mark_dirty call needed; an empty collection gets no buffer.
C11_FirstSyncPicksUpNewEntries ==
    (pc = "wait_frame" /\ sync_log.first) =>
        /\ sync_log.m.allocs = (IF Len(all_materials) > 0 THEN 1 ELSE 0)
        /\ sync_log.m.writes = Len(all_materials)
        /\ sync_log.m.failed = {}
        /\ \A k \in 1..Len(all_materials) :
             /\ ~all_materials[k].dirty
             /\ Unwrap(material_buffer).list[k] = MaterialInto(all_materials[k])
        /\ sync_log.c.allocs = (IF Len(all_circles) > 0 THEN 1 ELSE 0)
        /\ sync_log.c.writes = Len(all_circles)
        /\ sync_log.c.failed = {}
        /\ \A k \in 1..Len(all_circles) :
             /\ ~all_circles[k].dirty
             /\ Unwrap(circle_buffer).list[k] = CircleInto(all_circles[k])

\* C11 case: two materials and a circle were added and the first sync has
\* just returned.
C11_Witness ==
    /\ pc = "wait_frame"
    /\ sync_log.first
    /\ Len(all_materials) = 2
    /\ Len(all_circles) = 1
    /\ sync_log.m.writes = 2
    /\ sync_log.c.writes = 1

\* C12: before the loop starts the collections hold only entries made by
\* add_material / add_circle, and each has its position (from 0) as index;
\* later an entry either still has its position as index or is one the UI
\* pushed itself, which keeps the usize::MAX of new().
C12_IndexIsPosition ==
    /\ \A k \in 1..Len(all_materials) :
         /\ tick = 0 => all_materials[k].index = k - 1
         /\ all_materials[k].index /= USIZE_MAX => all_materials[k].index = k - 1
    /\ \A k \in 1..Len(all_circles) :
         /\ tick = 0 => all_circles[k].index = k - 1
         /\ all_circles[k].index /= USIZE_MAX => all_circles[k].index = k - 1

\* C12 case: three add_material calls were made and a sync has run over the
\* entries since.
C12_Witness ==
    /\ Len(all_materials) = 3
    /\ sync_log.ran
    /\ \A k \in 1..3 : all_materials[k].index = k - 1

\* C13: at every moment, and so whenever begin_frame runs, the framebuffer
\* set exists with one entry per swapchain image, and every entry of it was
\* built for the current swapchain (its generation, its extent, its own
\* image): a recreation replaces the whole set or, refused, none of it.
C13_FramebufferSetMatchesSwapchain ==
    /\ IsSome(buffers)
    /\ Len(Unwrap(buffers)) = images
    /\ \A i \in 1..images :
         Unwrap(buffers)[i] =
            [chain |-> swapchain.gen, image |-> i - 1, dims |-> swapchain.extent]
    /\ viewport = swapchain.extent

\* C13 case: begin_frame is about to run in a tick past the second whose
\* recreation, the first to succeed, replaced the swapchain.
C13_Witness ==
    /\ pc = "begin_frame"
    /\ tick > 2
    /\ swapchain.gen = 1
    /\ Len(recreate_log) = 1
    /\ recreate_log[1].outcome = "ok"
    /\ Len(Unwrap(buffers)) = images

\* C14: the tick that follows a resize to a zero-width or zero-height extent
\* (its MainEventsCleared carries out the pending recreation with the cached
\* zero-area size) leaves the swapchain, its images, the framebuffer set and
\* the viewport as they were, and the process goes on to the redraw, so that
\* they can serve again once a later resize gives a nonzero size.
C14_ZeroResizeKeepsSwapchain ==
    [][ ( /\ pc = "events"
          /\ recreate_swapchain
          /\ size[1] = 0 \/ size[2] = 0
          /\ tick' = tick + 1 )
        => ( /\ pc' = "redraw"
             /\ swapchain' = swapchain
             /\ images' = images
             /\ buffers' = buffers
             /\ viewport' = viewport ) ]_vars

\* C15: when acquire_next_image fails with an error other than OutOfDate (a
\* timeout included), begin_frame returns no recording and leaves the
\* swapchain, the framebuffer set, the previous-frame signal, the stored
\* acquire signal and the pending flag as they were; the end_frame of that
\* tick submits nothing, changes none of them either and reports Ok; the
\* status match leaves the recreation flag of the loop alone and the loop
\* goes on; the tick has no GPU submission.
C15_AcquireErrorSkipsFrame ==
    [][ /\ ( pc = "begin_frame" /\ pc' = "end_frame" /\ stale' /= "this_tick" )
           => ( /\ render_pass' = None
                /\ submissions = << >>
                /\ submissions' = << >>
                /\ UNCHANGED << chain_vars, previous_frame_end, acquire_future,
                                should_recreate_swapchain >> )
        /\ ( pc = "end_frame" /\ IsNone(render_pass) /\ stale /= "this_tick" )
           => ( /\ pc' = "status"
                /\ status' = Some("Ok")
                /\ submissions' = << >>
                /\ UNCHANGED << chain_vars, previous_frame_end, acquire_future,
                                should_recreate_swapchain >> )
        /\ ( pc = "status" /\ submissions = << >> /\ stale /= "this_tick" )
           => ( /\ pc' \in {"events", "exited"}
                /\ recreate_swapchain' = recreate_swapchain
                /\ UNCHANGED << chain_vars, timeline_vars, submissions >> ) ]_vars

\* C15 case: a tick after one that rendered failed to acquire for another
\* reason than a stale surface, and its end_frame has returned Ok.
C15_Witness ==
    /\ pc = "status"
    /\ tick > 1
    /\ submissions = << >>
    /\ stale /= "this_tick"
    /\ status = Some("Ok")
    /\ previous_frame_end = Some(FrameSignal("composite", tick - 1))

\* C16: from wait_frame to the status match of a tick, check_buffers has run
\* in that tick, exactly once; every GPU submission of the tick comes after
\* that run, and the offscreen recording submitted binds the geometry set the
\* run left.  The set, when the run rebuilt it, binds the buffers the
\* material sync and the circle sync left: the rebuild is the last step.
C16_SyncOncePerRenderedTick ==
    /\ pc \in {"wait_frame", "run_ui", "begin_frame", "draw_offscreen",
               "next_render_pass", "draw_composite", "end_frame", "status"} =>
         /\ sync_log.ran
         /\ sync_log.tick = tick
         /\ sync_log.runs = 1
    /\ \A i \in 1..Len(submissions) :
         /\ submissions[i].frame = tick
         /\ sync_log.tick = tick
         /\ sync_log.runs = 1
         /\ submissions[i].pass = "offscreen" => submissions[i].recorded.geom = geom_set
    /\ (pc = "wait_frame" /\ sync_log.rebuilt) =>
         geom_set = Some([material |-> BufRef(material_buffer),
                          circle |-> BufRef(circle_buffer)])

\* C16 case: the second tick rendered both passes after a sync that rebuilt
\* the geometry set.
C16_Witness ==
    /\ pc = "status"
    /\ tick = 2
    /\ Len(submissions) = 2
    /\ sync_log.tick = 2
    /\ sync_log.runs = 1
    /\ sync_log.rebuilt

\* C17: for every stored i32 kernel_offset k the kernel offset of the
\* composite uniform block is max(1, k): 1 for every k <= 0 and k for every
\* k >= 1, never below 1.  This is so of the function on every value of the
\* domain, of the block in the recording once the composite draw is recorded,
\* and of the block in the composite submission of the tick.
C17_KernelOffsetAtLeastOne ==
    /\ kernel_offset \in I32_MIN..I32_MAX
    /\ \A k \in KernelOffsetVals :
         /\ RenderInfo(k).kernel_offset = (IF k <= 0 THEN 1 ELSE k)
         /\ RenderInfo(k).kernel_offset >= 1
    /\ pc = "end_frame" /\ IsSome(render_pass) =>
         /\ IsSome(Unwrap(render_pass).render_info)
         /\ Unwrap(Unwrap(render_pass).render_info).kernel_offset
               = (IF kernel_offset <= 0 THEN 1 ELSE kernel_offset)
    /\ \A i \in 1..Len(submissions) :
         submissions[i].pass = "composite" =>
            /\ IsSome(submissions[i].recorded.render_info)
            /\ Unwrap(submissions[i].recorded.render_info).kernel_offset
                  = (IF kernel_offset <= 0 THEN 1 ELSE kernel_offset)
            /\ Unwrap(submissions[i].recorded.render_info).kernel_offset >= 1

\* C17 case: the composite pass of a tick was submitted with the stored
\* kernel offset at -3 and the block holds 1.
C17_Witness ==
    /\ kernel_offset = -3
    /\ Len(submissions) = 2
    /\ submissions[2].pass = "composite"
    /\ submissions[2].recorded.render_info = Some([kernel_offset |-> 1])

C19_ExitEndsLoopAfterTick ==
    [][ /\ exit => exit'
        /\ ( pc = "run_ui" /\ exit' ) => pc' = "begin_frame"
        /\ ( exit /\ pc \in {"begin_frame", "draw_offscreen", "next_render_pass",
                             "draw_composite", "end_frame"} )
           => pc' \in {"draw_offscreen", "next_render_pass", "draw_composite",
                       "end_frame", "status", "panicked"}
        /\ ( exit /\ pc = "status" ) => pc' = "exited"
        /\ pc' = "exited" => ( exit /\ pc \in {"status", "redraw"} )
        /\ ( exit /\ pc /= "events" ) => pc' /= "events"
        /\ ( exit /\ pc = "events" /\ pc' /= "events" ) => tick' = tick + 1
        /\ pc = "exited" => UNCHANGED vars ]_vars

\* C19 case: the exit was asked in a tick past the first (or just before
\* it), that tick rendered and presented, and the loop is over.
C19_Witness ==
    /\ pc = "exited"
    /\ exit
    /\ tick > 1
    /\ Len(submissions) = 2
    /\ IsSome(submissions[2].present)

\* C20: when end_frame returns, the pending flag of Vk is false, and the
\* status returned is ShouldRecreateSwapchain exactly when the flag was set
\* in this tick, by begin_frame (stale or suboptimal acquisition) or by the
\* stale present of end_frame itself, and Ok otherwise.  The flag is false
\* whenever a tick starts and wherever begin_frame is entered, so a request
\* is never carried into a later tick, and the status match hands each
\* reported request to the loop.
C20_PendingFlagConsumed ==
    [][ /\ ( pc = "end_frame" /\ pc' = "status" )
           => ( /\ ~should_recreate_swapchain'
                /\ status' = Some(
                     IF \/ should_recreate_swapchain
                        \/ /\ Len(submissions') > Len(submissions)
                           /\ submissions'[Len(submissions')].result = "out_of_date"
                     THEN "ShouldRecreateSwapchain" ELSE "Ok") )
        /\ pc \in {"events", "redraw", "wait_frame", "run_ui", "begin_frame",
                   "status", "exited"} => ~should_recreate_swapchain
        /\ ( pc = "status" /\ status = Some("ShouldRecreateSwapchain") )
           => recreate_swapchain' ]_vars

\* C20 case: a suboptimal acquisition set the flag, the frame was presented
\* without error, and end_frame has returned ShouldRecreateSwapchain with
\* the flag cleared.
C20_Witness ==
    /\ pc = "status"
    /\ status = Some("ShouldRecreateSwapchain")
    /\ ~should_recreate_swapchain
    /\ Len(submissions) = 2
    /\ submissions[2].result = "ok"
    /\ stale /= "this_tick"

\* C21: when acquire_next_image reports OutOfDate, begin_frame sets the
\* pending flag and returns no recording, with the previous-frame signal and
\* the stored acquire signal as they were; the end_frame of that tick, called
\* without a recording, submits nothing, returns ShouldRecreateSwapchain,
\* clears the flag and leaves both signals unchanged: the tick has no GPU
\* submission.
C21_StaleAcquireSkipsAndReports ==
    [][ /\ ( pc = "begin_frame" /\ stale' = "this_tick" )
           => ( /\ pc' = "end_frame"
                /\ should_recreate_swapchain'
                /\ render_pass' = None
                /\ submissions = << >>
                /\ submissions' = << >>
                /\ UNCHANGED << previous_frame_end, acquire_future >> )
        /\ ( pc = "end_frame" /\ IsNone(render_pass) /\ stale = "this_tick" )
           => ( /\ pc' = "status"
                /\ status' = Some("ShouldRecreateSwapchain")
                /\ ~should_recreate_swapchain'
                /\ submissions' = << >>
                /\ UNCHANGED << previous_frame_end, acquire_future >> ) ]_vars

\* C21 case: a tick after one that rendered found the surface out of date at
\* acquisition and its end_frame has returned.
C21_Witness ==
    /\ pc = "status"
    /\ tick > 1
    /\ stale = "this_tick"
    /\ submissions = << >>
    /\ status = Some("ShouldRecreateSwapchain")
    /\ ~should_recreate_swapchain
    /\ previous_frame_end = Some(FrameSignal("composite", tick - 1))

\* C22: when the submit-and-present of end_frame fails on an out-of-date
\* surface, end_frame has joined and consumed the acquire signal, stores a
\* fresh no-op signal (sync::now) as the previous-frame signal and returns
\* ShouldRecreateSwapchain.  From the return of end_frame to the
\* next_render_pass of the next tick nothing replaces the stored signal:
\* wait_frame finds it, and the offscreen submission is chained after it.
C22_StalePresentStoresNoopSignal ==
    [][ /\ ( pc = "end_frame" /\ stale' = "this_tick" /\ stale /= "this_tick" )
           => ( /\ Len(submissions') = 2
                /\ submissions'[2].result = "out_of_date"
                /\ submissions'[2].acquire = acquire_future
                /\ IsSome(acquire_future)
                /\ acquire_future' = None
                /\ previous_frame_end' = Some(NowSignal)
                /\ status' = Some("ShouldRecreateSwapchain")
                /\ pc' = "status" )
        /\ pc \in {"status", "events", "redraw", "wait_frame", "run_ui",
                   "begin_frame", "draw_offscreen"}
           => previous_frame_end' = previous_frame_end
        /\ ( pc = "wait_frame" /\ previous_frame_end = Some(NowSignal) )
           => pc' = "run_ui"
        /\ ( pc = "next_render_pass" /\ previous_frame_end = Some(NowSignal) )
           => ( /\ Len(submissions') = 1
                /\ submissions'[1].after = NowSignal
                /\ pc' = "draw_composite" ) ]_vars

\* C22 case: the present of the first tick found the surface out of date and
\* the second tick has submitted its offscreen pass after the no-op signal.
C22_Witness ==
    /\ tick = 2
    /\ stale = "last_tick"
    /\ pc = "draw_composite"
    /\ Len(submissions) = 1
    /\ submissions[1].after = NowSignal

\* C23: next_render_pass makes one submission, of the offscreen recording,
\* chained after the signal stored until then, and stores the signal of that
\* submission as the previous-frame signal.  The submission joins no acquire
\* signal and asks for no present; the stored acquire signal, the current
\* image index, the swapchain with its images and framebuffers, and the
\* pending flag are left as they were.
C23_OffscreenSubmitOnly ==
    [][ ( pc = "next_render_pass" /\ pc' = "draw_composite" )
        => ( /\ IsSome(previous_frame_end)
             /\ Len(submissions') = Len(submissions) + 1
             /\ LET sub == submissions'[Len(submissions')]
                IN  /\ sub.pass = "offscreen"
                    /\ sub.recorded = Unwrap(render_pass)
                    /\ sub.after = Unwrap(previous_frame_end)
                    /\ sub.acquire = None
                    /\ sub.present = None
             /\ previous_frame_end' = Some(FrameSignal("offscreen", tick))
             /\ IsSome(acquire_future)
             /\ UNCHANGED << acquire_future, current_image_index, chain_vars,
                             should_recreate_swapchain >> ) ]_vars

\* C23 case: the offscreen pass of a tick past the first was submitted after
\* the composite signal of the tick before, the acquire signal still stored.
C23_Witness ==
    /\ pc = "draw_composite"
    /\ tick > 1
    /\ Len(submissions) = 1
    /\ submissions[1].after = FrameSignal("composite", tick - 1)
    /\ previous_frame_end = Some(FrameSignal("offscreen", tick))
    /\ IsSome(acquire_future)
    /\ should_recreate_swapchain

\* C24: a run of check_buffers clears the flag of a record only after the
\* write of that record has succeeded: it has no step at which a record's
\* flag is false while the current buffer does not hold the record's value
\* yet, and a record it has written has its flag false when it returns.
C24_FlagClearedAfterWrite ==
    /\ sync_log.m.cleared_unwritten = {}
    /\ sync_log.c.cleared_unwritten = {}
    /\ pc = "wait_frame" =>
         /\ \A k \in sync_log.m.failed : ~all_materials[k].dirty
         /\ \A k \in sync_log.c.failed : ~all_circles[k].dirty

\* C25: when the mapped write of dirty record i is refused, the same run of
\* check_buffers allocates a new buffer of the stored size, writes record i
\* into it, raises update_descriptors (the geometry set is rebuilt on the new
\* buffer) and goes on with the records after i, which stand in the new
\* buffer too; check_buffers returns normally, to wait_frame.
C25_RefusedWriteRepairedInRun ==
    pc = "wait_frame" =>
        /\ \A i \in sync_log.m.failed :
             /\ sync_log.m.allocs >= 1
             /\ Unwrap(material_buffer).cap = material_buffer_size
             /\ Unwrap(material_buffer).list[i] = MaterialInto(all_materials[i])
             /\ \A k \in i..Len(all_materials) :
                  Unwrap(material_buffer).list[k] = MaterialInto(all_materials[k])
             /\ sync_log.rebuilt
             /\ Unwrap(geom_set).material = Some(Unwrap(material_buffer).gen)
        /\ \A i \in sync_log.c.failed :
             /\ sync_log.c.allocs >= 1
             /\ Unwrap(circle_buffer).cap = circle_buffer_size
             /\ Unwrap(circle_buffer).list[i] = CircleInto(all_circles[i])
             /\ \A k \in i..Len(all_circles) :
                  Unwrap(circle_buffer).list[k] = CircleInto(all_circles[k])
             /\ sync_log.rebuilt
             /\ Unwrap(geom_set).circle = Some(Unwrap(circle_buffer).gen)

\* C25 case: the write of the first of two materials was refused in a run
\* that found the length unchanged, and the run has returned.
C25_Witness ==
    /\ pc = "wait_frame"
    /\ Len(all_materials) = 2
    /\ ~sync_log.m.resized
    /\ sync_log.m.failed = {1}
    /\ sync_log.m.allocs = 1
    /\ sync_log.m.writes = 2

\* C26: with the geometry set layout of the offscreen pipeline in place, a
\* run of check_buffers rebuilds the geometry set exactly when it replaced
\* the material buffer or the circle buffer, on the buffers the run leaves,
\* and a run that replaced neither leaves the set as it was.  Hence at every
\* moment, and so whenever a frame is drawn, a geometry set that exists
\* binds the current material buffer at slot 0 and the current circle buffer
\* at slot 1, and the offscreen recording carries that set.
C26_GeomSetFollowsBuffers ==
    [][ /\ ( pc = "redraw" /\ pc' = "wait_frame" /\ geom_layout )
           => LET replaced == \/ BufRef(material_buffer') /= BufRef(material_buffer)
                              \/ BufRef(circle_buffer') /= BufRef(circle_buffer)
              IN  /\ sync_log'.rebuilt = replaced
                  /\ replaced = (sync_log'.m.allocs + sync_log'.c.allocs > 0)
                  /\ replaced => geom_set' = Some([material |-> BufRef(material_buffer'),
                                                   circle |-> BufRef(circle_buffer')])
                  /\ ~replaced => geom_set' = geom_set
        /\ IsSome(geom_set) =>
              /\ Unwrap(geom_set).material = BufRef(material_buffer)
              /\ Unwrap(geom_set).circle = BufRef(circle_buffer)
        /\ ( pc = "draw_offscreen" /\ geom_layout )
           => ( /\ Unwrap(render_pass').geom = geom_set
                /\ IsSome(material_buffer) \/ IsSome(circle_buffer) => IsSome(geom_set) ) ]_vars

\* C26 case: a frame is about to be drawn on the geometry set of a run that
\* replaced the circle buffer only, the material buffer being the one of an
\* earlier run.
C26_Witness ==
    /\ pc = "draw_offscreen"
    /\ sync_log.tick = tick
    /\ sync_log.rebuilt
    /\ sync_log.m.allocs = 0
    /\ sync_log.c.allocs = 1
    /\ IsSome(material_buffer)
    /\ geom_set = Some([material |-> BufRef(material_buffer),
                        circle |-> BufRef(circle_buffer)])

\* C27: from begin_frame to the status match of a tick no recreation takes
\* place: the swapchain, its images, the framebuffer set and the viewport
\* stay as they are, so the composite pass is presented on the swapchain its
\* image was acquired from.  A ShouldRecreateSwapchain status only sets the
\* flag of the loop; the swapchain changes only at the start of a tick, in
\* MainEventsCleared, with the flag set before.
C27_NoRecreationInsideFrame ==
    [][ /\ pc \in {"redraw", "wait_frame", "run_ui", "begin_frame", "draw_offscreen",
                   "next_render_pass", "draw_composite", "end_frame", "status"}
           => UNCHANGED << chain_vars, recreate_log >>
        /\ ( pc = "status" /\ status = Some("ShouldRecreateSwapchain") )
           => ( recreate_swapchain' /\ tick' = tick )
        /\ swapchain' /= swapchain
           => ( pc = "events" /\ recreate_swapchain /\ tick' = tick + 1 )
        /\ \A i \in 1..Len(submissions') :
              /\ submissions'[i].recorded.chain = swapchain'.gen
              /\ IsSome(submissions'[i].present) =>
                    Unwrap(submissions'[i].present).chain = swapchain'.gen ]_vars

\* C27 case: a frame was presented on the swapchain it was acquired from,
\* its end_frame reported ShouldRecreateSwapchain, and the tick is over with
\* the recreation pending and the swapchain still the same.
C27_Witness ==
    /\ pc = "events"
    /\ tick > 1
    /\ recreate_swapchain
    /\ Len(submissions) = 2
    /\ Unwrap(submissions[2].present).chain = swapchain.gen
    /\ submissions[1].recorded.chain = swapchain.gen
    /\ swapchain.gen = 1

\* C28: a recreation the platform answers with ImageExtentNotSupported
\* returns with the swapchain, images, framebuffer set and viewport as they
\* were, and the tick goes on to its redraw.  The flag of the loop was
\* cleared before the call and is set again only by a Resized event or by a
\* ShouldRecreateSwapchain status; a recreation is attempted only with the
\* flag set, and with the flag set the next tick attempts it, with the
\* cached size.
C28_UnsupportedExtentIsNoOp ==
    [][ /\ ( /\ pc = "events"
             /\ tick' = tick + 1
             /\ Len(recreate_log') = 1
             /\ recreate_log'[1].outcome = "unsupported" )
           => ( /\ UNCHANGED chain_vars
                /\ pc' = "redraw"
                /\ ~recreate_swapchain' )
        /\ ( ~recreate_swapchain /\ recreate_swapchain' )
           => \/ pc = "events" /\ tick' = tick
              \/ pc = "status" /\ status = Some("ShouldRecreateSwapchain")
        /\ ( pc = "events" /\ tick' = tick + 1 )
           => /\ Len(recreate_log') = (IF recreate_swapchain THEN 1 ELSE 0)
              /\ recreate_swapchain => recreate_log'[1].size = size ]_vars

\* C28 case: the first recreation, for a zero-area size, was refused; the
\* swapchain made at the start stood through the second tick; after a
\* resize the third tick attempted again and replaced it.
C28_Witness ==
    /\ tick = 3
    /\ pc = "redraw"
    /\ Len(recreate_log) = 1
    /\ recreate_log[1].outcome = "ok"
    /\ swapchain.gen = 1
    /\ ~sync_log.ran
    /\ stale = "never"

\* C29: a tick whose begin_frame returned a recording makes exactly two
\* queue submissions: the offscreen pass, by next_render_pass, without a
\* present, and then the composite pass, by end_frame, with the present of
\* the acquired image.  A tick whose begin_frame returned no recording makes
\* no submission and asks for no present.
C29_TwoSubmissionsPerFrame ==
    [][ /\ ( pc = "begin_frame" /\ pc' = "draw_offscreen" )
           => ( submissions' = << >> /\ IsSome(render_pass') )
        /\ ( pc = "begin_frame" /\ pc' = "end_frame" )
           => ( submissions' = << >> /\ IsNone(render_pass') )
        /\ ( pc = "next_render_pass" /\ pc' = "draw_composite" )
           => ( /\ Len(submissions') = 1
                /\ submissions'[1].pass = "offscreen"
                /\ submissions'[1].frame = tick
                /\ IsNone(submissions'[1].present) )
        /\ ( pc = "end_frame" /\ IsSome(render_pass) )
           => ( /\ pc' = "status"
                /\ Len(submissions') = 2
                /\ submissions'[1] = submissions[1]
                /\ submissions'[2].pass = "composite"
                /\ submissions'[2].frame = tick
                /\ submissions'[2].present
                      = Some([chain |-> swapchain.gen, image |-> current_image_index]) )
        /\ ( pc = "end_frame" /\ IsNone(render_pass) )
           => ( pc' = "status" /\ submissions = << >> /\ submissions' = << >> )
        /\ pc \in {"status", "draw_offscreen", "draw_composite"}
           => submissions' = submissions ]_vars

\* C29 case: a rendered tick is over with its two submissions, after a tick
\* that was skipped and made none.
C29_Witness ==
    /\ pc = "events"
    /\ tick = 2
    /\ faults = 1
    /\ sync_log.runs = 1
    /\ previous_frame_end = Some(FrameSignal("composite", 2))
    /\ Len(submissions) = 2
    /\ submissions[1].after = UploadSignal

\* C30: around an offscreen pipeline without a set layout at index 1, a run
\* of check_buffers that raised update_descriptors (it allocated a buffer)
\* builds no geometry set and fails on nothing: the set stays absent and the
\* run returns, to wait_frame; the offscreen draw is then issued, once, with
\* the view set bound and no geometry set, and so submitted.
C30_NoLayoutNoGeomSet ==
    /\ ~geom_layout
    /\ geom_set = None
    /\ ~sync_log.rebuilt
    /\ pc /= "panicked"
    /\ pc = "next_render_pass" =>
         /\ Unwrap(render_pass).view
         /\ Unwrap(render_pass).geom = None
         /\ Unwrap(render_pass).draws = 1
    /\ \A i \in 1..Len(submissions) :
         submissions[i].pass = "offscreen" =>
            /\ submissions[i].recorded.view
            /\ submissions[i].recorded.geom = None
            /\ submissions[i].recorded.draws = 1

\* C30 case: the run of this tick allocated both buffers, and the offscreen
\* draw has been recorded.
C30_Witness ==
    /\ ~geom_layout
    /\ pc = "next_render_pass"
    /\ sync_log.tick = tick
    /\ sync_log.m.allocs = 1
    /\ sync_log.c.allocs = 1
    /\ IsSome(material_buffer)
    /\ IsSome(circle_buffer)
    /\ Unwrap(render_pass).draws = 1
\* C31: while the material and the circle collection are both empty, no
\* buffer is allocated for either (the stored sizes stay 0), no run of
\* check_buffers raises update_descriptors or builds a geometry set, and the
\* offscreen recording of every frame has the view set bound and no geometry
\* set.  No buffer is ever allocated for zero records.  A recording carries a
\* geometry set only when one exists, the one check_buffers left.
C31_EmptySceneNoBuffers ==
    /\ ( Len(all_materials) = 0 /\ Len(all_circles) = 0 ) =>
         /\ material_buffer = None
         /\ circle_buffer = None
         /\ material_buffer_size = 0
         /\ circle_buffer_size = 0
         /\ geom_set = None
         /\ sync_log.m.allocs = 0
         /\ sync_log.c.allocs = 0
         /\ ~sync_log.rebuilt
         /\ \A i \in 1..Len(submissions) :
              submissions[i].pass = "offscreen" =>
                 ( submissions[i].recorded.view /\ submissions[i].recorded.geom = None )
    /\ IsSome(material_buffer) => Unwrap(material_buffer).cap > 0
    /\ IsSome(circle_buffer) => Unwrap(circle_buffer).cap > 0
    /\ pc = "next_render_pass" =>
         /\ Unwrap(render_pass).view
         /\ Unwrap(render_pass).geom = geom_set
    /\ \A i \in 1..Len(submissions) :
         submissions[i].pass = "offscreen" =>
            ( IsSome(submissions[i].recorded.geom) =>
                 submissions[i].recorded.geom = geom_set )

\* C31 case: the second tick of a run with an empty scene has synced,
\* rendered and presented.
C31_Witness ==
    /\ Len(all_materials) = 0
    /\ Len(all_circles) = 0
    /\ tick = 2
    /\ pc = "status"
    /\ sync_log.tick = 2
    /\ Len(submissions) = 2
    /\ submissions[1].recorded.view
    /\ submissions[1].recorded.geom = None
    /\ IsSome(submissions[2].present)
\* C32: when a run of check_buffers took the failed-write path for a
\* collection, and the next run starts with no scene mutation in between and
\* has no write refused, then at the return of that next run every record of
\* the collection stands with its current value at its position in the
\* current buffer and every dirty flag of the collection is false.
C32_MirrorAfterRepair ==
    ( sync_log.ran /\ ~mutated /\ sync_log.clean_start ) =>
        /\ ( sync_log.after_failed.m /\ sync_log.m.failed = {} ) =>
             /\ IsSome(material_buffer)
             /\ Len(Unwrap(material_buffer).list) = Len(all_materials)
             /\ \A k \in 1..Len(all_materials) :
                  /\ ~all_materials[k].dirty
                  /\ Unwrap(material_buffer).list[k] = MaterialInto(all_materials[k])
        /\ ( sync_log.after_failed.c /\ sync_log.c.failed = {} ) =>
             /\ IsSome(circle_buffer)
             /\ Len(Unwrap(circle_buffer).list) = Len(all_circles)
             /\ \A k \in 1..Len(all_circles) :
                  /\ ~all_circles[k].dirty
                  /\ Unwrap(circle_buffer).list[k] = CircleInto(all_circles[k])

\* C32 case: the second of two materials had its write refused in the second
\* tick; the run of the third tick, with nothing changed in between, wrote
\* both records and left both flags false.
C32_Witness ==
    /\ pc = "wait_frame"
    /\ tick = 3
    /\ sync_log.clean_start
    /\ sync_log.after_failed.m
    /\ sync_log.m.failed = {}
    /\ Len(all_materials) = 2
    /\ sync_log.m.dirty0 = {1, 2}
    /\ sync_log.m.writes = 2
    /\ \A k \in 1..2 : ~all_materials[k].dirty
\* C33: an edit the UI callback makes to an entry (another value, the entry
\* marked dirty) is not written to the buffer in the tick it is made in: from
\* wait_frame to the end of a tick no buffer record changes.  The run of
\* check_buffers of the next tick that gets past the size test writes the
\* record at its position in the current buffer and leaves its flag false.
C33_UiEditSyncedNextTick ==
    [][ /\ pc \in {"wait_frame", "run_ui", "begin_frame", "draw_offscreen",
                   "next_render_pass", "draw_composite", "end_frame", "status"}
           => /\ IsSome(material_buffer) =>
                   /\ IsSome(material_buffer')
                   /\ Unwrap(material_buffer').list = Unwrap(material_buffer).list
              /\ IsSome(circle_buffer) =>
                   /\ IsSome(circle_buffer')
                   /\ Unwrap(circle_buffer').list = Unwrap(circle_buffer).list
        /\ ( pc = "redraw" /\ pc' = "wait_frame" )
           => /\ \A i \in 1..material_buffer_size :
                   ( /\ i <= Len(all_materials)
                     /\ all_materials[i].dirty
                     /\ Unwrap(material_buffer).list[i]
                           \notin {Uninit, MaterialInto(all_materials[i])} )
                   => ( /\ Unwrap(material_buffer').list[i] = MaterialInto(all_materials[i])
                        /\ all_materials'[i] = [all_materials[i] EXCEPT !.dirty = FALSE] )
              /\ \A i \in 1..circle_buffer_size :
                   ( /\ i <= Len(all_circles)
                     /\ all_circles[i].dirty
                     /\ Unwrap(circle_buffer).list[i]
                           \notin {Uninit, CircleInto(all_circles[i])} )
                   => ( /\ Unwrap(circle_buffer').list[i] = CircleInto(all_circles[i])
                        /\ all_circles'[i] = [all_circles[i] EXCEPT !.dirty = FALSE] ) ]_vars
\* C34: when the acquisition of a tick succeeds and reports the swapchain
\* suboptimal, begin_frame returns a recording all the same; the tick goes
\* through the offscreen draw, next_render_pass, the composite draw and
\* end_frame, which makes the composite submission with the present of the
\* acquired image and returns ShouldRecreateSwapchain; the status match marks
\* the recreation pending, and the MainEventsCleared of the next tick
\* attempts it.
C34_SuboptimalFramePresented ==
    [][ /\ ( pc = "begin_frame" /\ suboptimal_seen' = "this_tick" )
           => ( /\ pc' = "draw_offscreen"
                /\ IsSome(render_pass')
                /\ should_recreate_swapchain' )
        /\ ( suboptimal_seen = "this_tick" /\ pc = "draw_offscreen" )
           => ( pc' = "next_render_pass" /\ Unwrap(render_pass').draws = 1 )
        /\ ( suboptimal_seen = "this_tick" /\ pc = "next_render_pass" )
           => ( pc' = "draw_composite" /\ Len(submissions') = 1 )
        /\ ( suboptimal_seen = "this_tick" /\ pc = "draw_composite" )
           => ( pc' = "end_frame" /\ Unwrap(render_pass').draws = 1 )
        /\ ( suboptimal_seen = "this_tick" /\ pc = "end_frame" )
           => ( /\ pc' = "status"
                /\ Len(submissions') = 2
                /\ submissions'[1].pass = "offscreen"
                /\ submissions'[2].pass = "composite"
                /\ submissions'[2].present
                      = Some([chain |-> swapchain.gen, image |-> current_image_index])
                /\ submissions'[2].acquire
                      = Some([frame |-> tick, image |-> current_image_index])
                /\ status' = Some("ShouldRecreateSwapchain") )
        /\ ( suboptimal_seen = "this_tick" /\ pc = "status" )
           => ( recreate_swapchain' /\ UNCHANGED chain_vars )
        /\ ( suboptimal_seen = "this_tick" /\ pc = "events" )
           => ( /\ recreate_swapchain
                /\ tick' = tick => recreate_swapchain'
                /\ tick' = tick + 1 => ( /\ Len(recreate_log') = 1
                                         /\ recreate_log'[1].size = size ) ) ]_vars

\* C34 case: the acquisition of the first tick was suboptimal, its frame was
\* presented without error, and the second tick has replaced the swapchain
\* before its redraw.
C34_Witness ==
    /\ suboptimal_seen = "last_tick"
    /\ stale = "never"
    /\ tick = 2
    /\ pc = "redraw"
    /\ previous_frame_end = Some(FrameSignal("composite", 1))
    /\ Len(recreate_log) = 1
    /\ recreate_log[1].outcome = "ok"
    /\ swapchain.gen = 2
\* C35: when the flush of the composite submission with its present fails
\* with an error other than OutOfDate, end_frame returns all the same (no
\* panic), with sync::now stored as the previous-frame signal, the acquire
\* signal consumed and the pending flag false; it did not set the flag: the
\* status is ShouldRecreateSwapchain exactly when the flag was set before,
\* by the suboptimal acquisition of the same frame, and Ok otherwise.
C35_FlushErrorStoresNoopSignal ==
    [][ ( /\ pc = "end_frame"
          /\ Len(submissions') = 2
          /\ submissions'[2].result = "error" )
        => ( /\ pc' = "status"
             /\ previous_frame_end' = Some(NowSignal)
             /\ acquire_future' = None
             /\ ~should_recreate_swapchain'
             /\ should_recreate_swapchain = (suboptimal_seen = "this_tick")
             /\ status' = Some(IF should_recreate_swapchain
                               THEN "ShouldRecreateSwapchain" ELSE "Ok")
             /\ stale' = stale
             /\ UNCHANGED << chain_vars, recreate_swapchain >> ) ]_vars

\* C35 case: the present of the first tick failed with another error than
\* OutOfDate, end_frame returned Ok, and the second tick, which attempted no
\* recreation, has passed wait_frame on the no-op signal.
C35_Witness ==
    /\ tick = 2
    /\ pc = "run_ui"
    /\ stale = "never"
    /\ suboptimal_seen = "never"
    /\ previous_frame_end = Some(NowSignal)
    /\ recreate_log = << >>
    /\ ~recreate_swapchain
\* C36: a redraw request that finds the cached size with zero width or zero
\* height returns at once: the handler is over, and no check_buffers, UI
\* callback, begin_frame, submission or end_frame took place; the timeline
\* fields of Vk, the swapchain, the buffers, the geometry set and every entry
\* with its dirty flag are as they were.  No step of a frame is ever taken
\* with a zero-area cached size.  A redraw request that finds a nonzero size
\* runs check_buffers and goes on to wait_frame.
C36_ZeroSizeRedrawDoesNothing ==
    [][ /\ ( pc = "redraw" /\ (size[1] = 0 \/ size[2] = 0) )
           => ( /\ pc' \in {"events", "exited"}
                /\ UNCHANGED << timeline_vars, chain_vars, scene_vars, mirror_vars,
                                frame_vars, sync_log, uploads, loop_vars >>
                /\ submissions = << >> )
        /\ pc \in {"wait_frame", "run_ui", "begin_frame", "draw_offscreen",
                   "next_render_pass", "draw_composite", "end_frame", "status"}
           => ( size[1] /= 0 /\ size[2] /= 0 )
        /\ ( pc = "redraw" /\ size[1] /= 0 /\ size[2] /= 0 )
           => ( /\ pc' = "wait_frame"
                /\ sync_log'.ran
                /\ sync_log'.tick = tick
                /\ sync_log'.runs = 1 ) ]_vars

\* C36 case: the first tick found a zero-area size and did nothing; after a
\* resize to a nonzero size the second tick replaced the swapchain, ran the
\* first check_buffers of the run and has come to begin_frame.
C36_Witness ==
    /\ tick = 2
    /\ pc = "begin_frame"
    /\ sync_log.first
    /\ sync_log.tick = 2
    /\ size = default_window_size
    /\ swapchain.gen = 1
    /\ previous_frame_end = Some(UploadSignal)
\* C37: within a frame, the offscreen framebuffer the recording was begun
\* on, the screen framebuffer the composite pass was begun on, the offscreen
\* attachment views next_render_pass returned and the image end_frame
\* presents are those of one image, the one acquired by the begin_frame of
\* that tick, on the current swapchain; its index lies below the length of
\* the framebuffer set.
C37_OneImagePerFrame ==
    /\ IsSome(render_pass) =>
         LET r == Unwrap(render_pass)
         IN  /\ acquire_future = Some([frame |-> tick, image |-> current_image_index])
             /\ r.framebuffer = current_image_index
             /\ r.chain = swapchain.gen
             /\ current_image_index < Len(Unwrap(buffers))
             /\ Unwrap(buffers)[current_image_index + 1].image = current_image_index
             /\ r.pass = "composite" =>
                  /\ r.ray_views = Some([chain |-> swapchain.gen,
                                         image |-> current_image_index])
                  /\ Len(submissions) = 1
                  /\ submissions[1].recorded.framebuffer = current_image_index
    /\ Len(submissions) = 2 =>
         LET off == submissions[1]
             comp == submissions[2]
         IN  /\ off.recorded.pass = "offscreen"
             /\ comp.recorded.pass = "composite"
             /\ off.recorded.framebuffer = current_image_index
             /\ comp.recorded.framebuffer = current_image_index
             /\ comp.recorded.ray_views = Some([chain |-> swapchain.gen,
                                                image |-> current_image_index])
             /\ comp.present = Some([chain |-> swapchain.gen,
                                     image |-> current_image_index])
             /\ comp.acquire = Some([frame |-> tick, image |-> current_image_index])
             /\ current_image_index < Len(Unwrap(buffers))

\* C37 case: the third tick acquired image 3 of a swapchain replaced since
\* the start, and both passes were submitted and the image presented.
C37_Witness ==
    /\ tick = 3
    /\ pc = "status"
    /\ swapchain.gen >= 1
    /\ Len(submissions) = 2
    /\ current_image_index = 3
    /\ submissions[1].recorded.framebuffer = 3
    /\ submissions[2].recorded.framebuffer = 3
    /\ submissions[2].recorded.ray_views = Some([chain |-> swapchain.gen, image |-> 3])
    /\ Unwrap(submissions[2].present).image = 3
\* C38: requests for a recreation (Resized events, ShouldRecreateSwapchain
\* statuses) only set the flag of the loop, which stays set until a tick
\* starts, however many requests follow; a Resized event also replaces the
\* cached size.  The MainEventsCleared of a tick that finds the flag set
\* clears it and calls recreate_swapchain once, with the size cached then; one
\* that finds it clear makes no call and leaves the swapchain alone.  No
\* other step calls recreate_swapchain, and a tick has at most one call.
C38_OneRecreationPerTick ==
    [][ /\ Len(recreate_log') <= 1
        /\ ( pc = "events" /\ tick' = tick + 1 /\ recreate_swapchain )
           => ( /\ ~recreate_swapchain'
                /\ recreate_log' \in { << [size |-> size, outcome |-> o] >> :
                                          o \in RecreateOutcomes(size) }
                /\ swapchain'.gen \in {swapchain.gen, swapchain.gen + 1}
                /\ swapchain' /= swapchain => swapchain'.extent = size )
        /\ ( pc = "events" /\ tick' = tick + 1 /\ ~recreate_swapchain )
           => ( /\ ~recreate_swapchain'
                /\ recreate_log' = << >>
                /\ UNCHANGED chain_vars )
        /\ ( pc = "events" /\ tick' = tick /\ recreate_swapchain )
           => recreate_swapchain'
        /\ ~( pc = "events" /\ tick' = tick + 1 )
           => UNCHANGED << recreate_log, chain_vars >>
        /\ ( ~recreate_swapchain /\ recreate_swapchain' )
           => \/ pc = "events" /\ tick' = tick /\ size' \in Sizes
              \/ pc = "status" /\ status = Some("ShouldRecreateSwapchain")
        /\ size' /= size => ( pc = "events" /\ tick' = tick /\ recreate_swapchain' ) ]_vars

\* C38 case: the first tick found the surface out of date and a Resized
\* event followed before the second tick, which made one call, with the
\* size of that event; the flag is clear.
C38_Witness ==
    /\ tick = 2
    /\ pc = "redraw"
    /\ stale = "last_tick"
    /\ faults = 2
    /\ ~exit
    /\ size = << 0, 900 >>
    /\ recreate_log = << [size |-> << 0, 900 >>, outcome |-> "unsupported"] >>
    /\ ~recreate_swapchain
    /\ swapchain.extent = default_window_size

=============================================================================
